---- MODULE Spec2Model ----
(***************************************************************************)
(* Model of the photo_sorter mapping/copy pipeline:                        *)
(*   copier.py            copy_file and its collision policy                *)
(*   services/job_store   JobStore (create / update / get)                  *)
(*   services/mapping     build_mapping and MappingCache                    *)
(*   services/copy_runner, services/preview_runner   the background jobs    *)
(*                                                                         *)
(*   grouper.py, events.py   make_group_name, detect_event                  *)
(*                                                                         *)
(* The specifications share the variables:                                 *)
(*   SpecCopier    sequential calls of copy_file on one file system         *)
(*   SpecCopiers   copy_file called by two threads at once, step by step    *)
(*   Spec          concurrent copy / preview jobs publishing into JobStore  *)
(*   SpecStore     calls of one JobStore and holders of its records         *)
(*   SpecMapping   sequential calls of build_mapping, tree and clock change *)
(*   SpecBuilders  concurrent preview builds over one mapping cache         *)
(*   SpecGrouper   calls of make_group_name while the rules file changes    *)
(*   SpecEvents    detect_event over every date of a year                   *)
(*   SpecCache     MappingCache.get / set called by two threads at once     *)
(*   SpecErrors    the errors lists of two copy jobs and a poller           *)
(***************************************************************************)
EXTENDS Integers, Sequences, FiniteSets, TLC

VARIABLES
    dirs,       \* file system: the set of existing directories (paths)
    files,      \* file system: existing destination files, path -> content
    hist,       \* the sequential specifications: the last calls (history)
    polled,     \* what a poller holds: the record JobStore.get returned to it
    rules,      \* grouper._load_rules' lru_cache: nothing, or the rules loaded
    media,      \* source tree: existing root -> its media files, in scan order
    now,        \* time.time()
    cache,      \* mapping.cache._store : normalized source -> MappingResult
    copy_jobs,  \* job_store.copy_jobs._jobs : job id -> record (a dict)
    preview_jobs, \* job_store.preview_jobs._jobs
    heap,       \* Python list objects held by job records (the errors lists)
    task,       \* per job id: the background thread (pc and locals)
    trace       \* per job id: history of what the thread did (ghost)

vars == <<dirs, files, hist, polled, rules, media, now, cache, copy_jobs, preview_jobs, heap, task, trace>>

(***************************************************************************)
(* Bounds                                                                  *)
(***************************************************************************)
MaxCalls == 3       \* the sequential specifications: number of calls in a run
MaxFiles == 2       \* Spec: number of media files under the source root
MaxTicks == 1       \* Spec: number of clock advances
TickSeconds == 301  \* Spec: seconds per clock advance
MaxBuilds == 2      \* SpecMapping: number of build_mapping calls in a run

(***************************************************************************)
(* Files, names, contents                                                  *)
(***************************************************************************)
None == "None"      \* Python None, where the field otherwise holds a string
NoPath == <<>>      \* Python None, where the field otherwise holds a path

\* File contents: a size (st_size) and a body.  Two bodies of the same size,
\* and one of another size.
Contents == {[size |-> 1, data |-> "x"], [size |-> 1, data |-> "y"],
             [size |-> 2, data |-> "xx"]}

\* A file name "<stem><sfx...>.jpg": "a.jpg" is [stem |-> "a", sfx |-> <<>>],
\* "a_1.jpg" is [stem |-> "a", sfx |-> <<1>>].
BaseName == [stem |-> "a", sfx |-> <<>>]

\* copier.py line 47: dest_dir / f"{base}_{i}{suf}"
Renamed(name, i) == [name EXCEPT !.sfx = Append(@, i)]

FilePath(dir, name) == [dir |-> dir, name |-> name]

\* copier.py _hash_file: the md5 digest of the body
_hash_file(c) == <<"md5", c.data>>

\* Path.mkdir(parents=True, exist_ok=True): the directory and all its parents
MkdirParents(ds, d) == ds \cup {SubSeq(d, 1, k) : k \in 1..Len(d)}

\* a rename that always picks stem_1, whether or not it is taken
FirstFreeFrom_ALWAYS_1(fl, dir, name, i) == FilePath(dir, Renamed(name, 1))

\* copier.py lines 44-48: first free name among stem_1, stem_2, ...
RECURSIVE FirstFreeFrom(_, _, _, _)
FirstFreeFrom(fl, dir, name, i) ==
    IF FilePath(dir, Renamed(name, i)) \in DOMAIN fl
    THEN FirstFreeFrom(fl, dir, name, i + 1)
    ELSE FilePath(dir, Renamed(name, i))

Faults == {"none", "mkdir", "hash", "copy"}

(***************************************************************************)
(* copier.copy_file(src, dest_dir, dry_run, return_status=True)            *)
(* ds, fl: the file system before the call; src: [name, content];          *)
(* fault: which system call of this invocation fails, if it is reached.    *)
(* Result: the file system after the call and either raised = TRUE or the  *)
(* returned (dest, status).                                                *)
(***************************************************************************)
copy_file(ds, fl, src, dest_dir, dry_run, fault) ==
    IF fault = "mkdir"
    THEN [dirs |-> ds, files |-> fl, raised |-> TRUE, dest |-> NoPath, status |-> None]
    ELSE
    LET ds1   == MkdirParents(ds, dest_dir)
        dest0 == FilePath(dest_dir, src.name)
        exists == dest0 \in DOMAIN fl
        identical ==
            /\ exists
            /\ fl[dest0].size = src.content.size
            /\ fault # "hash"
            /\ _hash_file(src.content) = _hash_file(fl[dest0])
        dest == IF exists THEN FirstFreeFrom(fl, dest_dir, src.name, 1) ELSE dest0
    IN  IF identical
        THEN [dirs |-> ds1, files |-> fl, raised |-> FALSE,
              dest |-> dest0, status |-> "skipped_identical"]
        ELSE IF dry_run
        THEN [dirs |-> ds1, files |-> fl, raised |-> FALSE,
              dest |-> dest, status |-> "dryrun"]
        ELSE IF fault = "copy"
        THEN [dirs |-> ds1, files |-> fl, raised |-> TRUE, dest |-> NoPath, status |-> None]
        ELSE [dirs |-> ds1, files |-> (dest :> src.content) @@ fl, raised |-> FALSE,
              dest |-> dest,
              status |-> IF dest.name # src.name THEN "renamed" ELSE "copied"]

(***************************************************************************)
(* SpecCopier: copy_file called repeatedly on one file system              *)
(***************************************************************************)
OutRoot == <<"out">>
DestDirs == {<<"out", "G1">>}
CopierNames == {BaseName, Renamed(BaseName, 1)}
CopierSources == [name : {BaseName}, content : Contents]

\* the part of a finished call that a later call is compared with
Summary(call) == [call EXCEPT !.pre_dirs = {}, !.pre_files = <<>>]

InitCopier ==
    /\ \E pre \in SUBSET {FilePath(<<"out", "G1">>, n) : n \in CopierNames} :
         \E fl \in [pre -> Contents] :
           /\ files = fl
           /\ \E ds \in SUBSET ({OutRoot} \cup DestDirs) :
                /\ \A d \in ds : MkdirParents({}, d) \subseteq ds
                /\ \A p \in pre : p.dir \in ds
                /\ dirs = ds
    /\ hist = [n |-> 0, calls |-> <<>>]
    /\ polled = <<>>
    /\ rules = <<>>
    /\ media = <<>>
    /\ now = 0
    /\ cache = <<>>
    /\ copy_jobs = <<>>
    /\ preview_jobs = <<>>
    /\ heap = <<>>
    /\ task = <<>>
    /\ trace = <<>>

CopyCall(src, dest_dir, dry_run, fault) ==
    /\ hist.n < MaxCalls
    /\ LET r == copy_file(dirs, files, src, dest_dir, dry_run, fault)
           call == [src |-> src, dest_dir |-> dest_dir, dry_run |-> dry_run,
                    fault |-> fault, raised |-> r.raised, dest |-> r.dest,
                    status |-> r.status, pre_dirs |-> dirs, pre_files |-> files]
       IN /\ dirs' = r.dirs
          /\ files' = r.files
          /\ hist' = [n |-> hist.n + 1,
                      calls |-> IF hist.calls = <<>> THEN <<call>>
                                ELSE <<Summary(hist.calls[Len(hist.calls)]), call>>]
    /\ UNCHANGED <<polled, rules, media, now, cache, copy_jobs, preview_jobs, heap, task, trace>>

NextCopier ==
    \E src \in CopierSources, d \in DestDirs, dry \in BOOLEAN, fault \in Faults :
        CopyCall(src, d, dry, fault)

SpecCopier == InitCopier /\ [][NextCopier]_vars

(***************************************************************************)
(* Claims about copy_file (checked under SpecCopier)                       *)
(***************************************************************************)
HasCall == hist.calls # <<>>
HasTwoCalls == Len(hist.calls) = 2
LastCall == hist.calls[Len(hist.calls)]
PrevCall == hist.calls[1]

\* the last two calls were the same real copy, and no system call failed
SameCopyTwice ==
    /\ HasTwoCalls
    /\ PrevCall.src = LastCall.src
    /\ PrevCall.dest_dir = LastCall.dest_dir
    /\ ~PrevCall.dry_run /\ ~LastCall.dry_run
    /\ PrevCall.fault = "none" /\ LastCall.fault = "none"

\* C8: copy_file is idempotent: the second of two identical calls
\* (dry_run false) returns skipped_identical and the same destination path
\* as the first, and leaves the destination folder as the first call left it.
C8_Idempotent ==
    SameCopyTwice =>
        /\ LastCall.status = "skipped_identical"
        /\ LastCall.dest = PrevCall.dest
        /\ files = LastCall.pre_files

\* the last call found a same-named file that differs from the source
\* (by size or by hash), and copied
CollidedAndCopied ==
    /\ HasCall
    /\ ~LastCall.dry_run
    /\ ~LastCall.raised
    /\ LET d0 == FilePath(LastCall.dest_dir, LastCall.src.name)
       IN /\ d0 \in DOMAIN LastCall.pre_files
          /\ \/ LastCall.pre_files[d0].size # LastCall.src.content.size
             \/ _hash_file(LastCall.pre_files[d0]) # _hash_file(LastCall.src.content)

\* C9: on a collision with a differing file, copy_file writes the source to
\* stem_n for the smallest n >= 1 whose name is free in the destination
\* folder, and modifies no file that existed before the call.
C9_FirstFreeName ==
    CollidedAndCopied =>
        LET c == LastCall
            taken(n) == FilePath(c.dest_dir, Renamed(c.src.name, n)) \in DOMAIN c.pre_files
        IN /\ \E n \in 1..(Cardinality(DOMAIN c.pre_files) + 1) :
                /\ c.dest = FilePath(c.dest_dir, Renamed(c.src.name, n))
                /\ ~taken(n)
                /\ \A m \in 1..(n - 1) : taken(m)
           /\ c.status = "renamed"
           /\ DOMAIN files = DOMAIN c.pre_files \cup {c.dest}
           /\ files[c.dest] = c.src.content
           /\ \A p \in DOMAIN c.pre_files : files[p] = c.pre_files[p]

\* two different files named a.jpg copied into an empty folder: a.jpg, a_1.jpg
C9_Witness ==
    /\ HasTwoCalls
    /\ CollidedAndCopied
    /\ PrevCall.status = "copied"
    /\ PrevCall.src.content # LastCall.src.content
    /\ PrevCall.dest = FilePath(LastCall.dest_dir, BaseName)
    /\ LastCall.dest = FilePath(LastCall.dest_dir, Renamed(BaseName, 1))
    /\ DOMAIN files = {PrevCall.dest, LastCall.dest}

\* C10: a dry run writes nothing: files and directories (the destination
\* directory and its parents included) are as they were before the call.
C10_DryRunWritesNothing ==
    (HasCall /\ LastCall.dry_run) =>
        /\ files = LastCall.pre_files
        /\ dirs = LastCall.pre_dirs

\* the last call reached the hashing of source and existing file (a file of
\* the same name and size was there) and the read failed
HashFailed ==
    /\ HasCall
    /\ LastCall.fault = "hash"
    /\ LET d0 == FilePath(LastCall.dest_dir, LastCall.src.name)
       IN /\ d0 \in DOMAIN LastCall.pre_files
          /\ LastCall.pre_files[d0].size = LastCall.src.content.size

\* the last call reached shutil.copy2 and it failed
CopyFailedInCall ==
    /\ HasCall
    /\ LastCall.fault = "copy"
    /\ ~LastCall.dry_run
    /\ LastCall.status # "skipped_identical"

\* C11: an I/O error while copy_file hashes the source or the existing
\* destination file, or while it copies, propagates to the caller:
\* copy_file raises and returns no destination path and no status.
C11_IOErrorPropagates ==
    (HashFailed \/ CopyFailedInCall) =>
        /\ LastCall.raised
        /\ LastCall.dest = NoPath
        /\ LastCall.status = None

\* C24: a dry run that returns a status returns dryrun, whatever the
\* destination folder held before the call: no file of the source's name,
\* an identical one, or a different one.
C24_DryRunStatus ==
    (HasCall /\ LastCall.dry_run /\ ~LastCall.raised) => LastCall.status = "dryrun"

(***************************************************************************)
(* Paths and the source tree                                               *)
(***************************************************************************)
\* str.lower(), piece by piece: the pieces of the model that hold capitals
LowerTable ==
    ("C" :> "c") @@ ("A" :> "a") @@ ("B" :> "b") @@ ("Paris" :> "paris")
    @@ ("New" :> "new") @@ ("York" :> "york") @@ ("France" :> "france")
    @@ ("NoLocation" :> "nolocation") @@ ("Unknown" :> "unknown")
    @@ ("EnzoBirthday" :> "enzobirthday") @@ ("AxelBirthday" :> "axelbirthday")
    @@ ("AmhaoinBirthday" :> "amhaoinbirthday")
    @@ ("PatrickBirthday" :> "patrickbirthday") @@ ("NewYear" :> "newyear")
    @@ ("Valentines" :> "valentines") @@ ("StPatricks" :> "stpatricks")
    @@ ("Easter" :> "easter") @@ ("Halloween" :> "halloween")
    @@ ("Thanksgiving" :> "thanksgiving") @@ ("Christmas" :> "christmas")
    @@ ("NewYearsEve" :> "newyearseve") @@ ("Ski" :> "ski") @@ ("Trip" :> "trip")
    @@ ("Xmas" :> "xmas") @@ ("NYC" :> "nyc") @@ ("Camp" :> "camp")
    @@ ("Fest" :> "fest") @@ ("Late" :> "late")

\* utils/paths.py _windows_to_wsl: C:\rest -> /mnt/c/rest
Lower(drive) == IF drive \in DOMAIN LowerTable THEN LowerTable[drive] ELSE drive
_windows_to_wsl(v) ==
    IF v.style = "win"
    THEN [style |-> "posix", drive |-> "", parts |-> <<"mnt", Lower(v.drive)>> \o v.parts]
    ELSE v

\* utils/paths.py normalize_user_path, on a posix runtime
normalize_user_path(v) == _windows_to_wsl(v)

\* the source arguments a caller submits: the photo root, written the
\* Windows way, and a root that does not exist
PhotosArg == [style |-> "win", drive |-> "C", parts |-> <<"photos">>]
GoneArg == [style |-> "posix", drive |-> "", parts |-> <<"gone">>]
SourceArgs == {PhotosArg, GoneArg}
PhotosRoot == [style |-> "posix", drive |-> "", parts |-> <<"mnt", "c", "photos">>]

Groups == {"G1", "G:2"}
\* the group argument of a copy job: all groups, a group, a name that is no key
GroupArgs == {None, "G1", "G9"}

ContentSeq == <<[size |-> 1, data |-> "x"], [size |-> 1, data |-> "y"],
                [size |-> 2, data |-> "xx"]>>
\* the i-th media file: <root>/<i>/a.jpg
MediaFile(i, g) ==
    [path |-> <<"mnt", "c", "photos", i, "a.jpg">>, name |-> BaseName,
     content |-> ContentSeq[((i - 1) % Len(ContentSeq)) + 1], group |-> g]

\* scanner.py scan_images: raises FileNotFoundError unless the root exists
ScanRaises(root) == root \notin DOMAIN media
scan_images(root) == media[root]

\* mapping.py lines 66-74: extract_metadata and make_group_name of one file
GroupOf(f) == f.group

(***************************************************************************)
(* services/mapping.py                                                     *)
(***************************************************************************)
ttl == 300

NoEntry == <<>>

\* a cache whose entries never expire
CacheGetEntry_NO_EXPIRY(store, source, t) ==
    IF source \notin DOMAIN store THEN NoEntry ELSE store[source]

\* MappingCache.get: the entry, dropped from the store when older than ttl
CacheGetEntry(store, source, t) ==
    IF source \notin DOMAIN store THEN NoEntry
    ELSE IF t - store[source].built_at > ttl THEN NoEntry
    ELSE store[source]
CacheGetStore(store, source, t) ==
    IF source \in DOMAIN store /\ t - store[source].built_at > ttl
    THEN [k \in DOMAIN store \ {source} |-> store[k]]
    ELSE store

\* a set that rebinds the whole store
CacheSet_REBIND(store, source, result) == (source :> result)

\* MappingCache.set
CacheSet(store, source, result) == (source :> result) @@ store

\* groups: the dict group -> list of paths, kept in insertion order as a
\* sequence of [group, paths]
GroupKeys(groups) == [k \in 1..Len(groups) |-> groups[k].group]
HasGroup(groups, g) == \E k \in 1..Len(groups) : groups[k].group = g
\* mapping.get(group, [])
GroupGet(groups, g) ==
    IF HasGroup(groups, g)
    THEN groups[CHOOSE k \in 1..Len(groups) : groups[k].group = g].paths
    ELSE <<>>
\* groups[group] = [path]: the list of the group started anew
GroupAppend_NEW_LIST(groups, g, path) ==
    IF HasGroup(groups, g)
    THEN [k \in 1..Len(groups) |->
            IF groups[k].group = g
            THEN [groups[k] EXCEPT !.paths = <<path>>]
            ELSE groups[k]]
    ELSE Append(groups, [group |-> g, paths |-> <<path>>])

\* groups.setdefault(group, []).append(path)
GroupAppend(groups, g, path) ==
    IF HasGroup(groups, g)
    THEN [k \in 1..Len(groups) |->
            IF groups[k].group = g
            THEN [groups[k] EXCEPT !.paths = Append(@, path)]
            ELSE groups[k]]
    ELSE Append(groups, [group |-> g, paths |-> <<path>>])

\* build_mapping lines 65-80: the loop over the first n files of scan_list
RECURSIVE GroupsOfPrefix(_, _)
GroupsOfPrefix(scan_list, n) ==
    IF n = 0 THEN <<>>
    ELSE GroupAppend(GroupsOfPrefix(scan_list, n - 1), GroupOf(scan_list[n]), scan_list[n])

MappingResult(source, t, fl, groups) ==
    [source |-> source, built_at |-> t, files |-> fl, groups |-> groups]

(***************************************************************************)
(* services/job_store.py                                                   *)
(***************************************************************************)
NoRecord == <<>>

\* JobStore.create
JobCreate(store, job_id, initial) == (job_id :> initial) @@ store

\* an update that creates the record of an unknown id (setdefault)
JobUpdate_UPSERT(store, job_id, kwargs) ==
    IF job_id \notin DOMAIN store THEN (job_id :> kwargs) @@ store
    ELSE [store EXCEPT ![job_id] = kwargs @@ @]

\* JobStore.update: merge the fields, a no-op on an unknown id
JobUpdate(store, job_id, kwargs) ==
    IF job_id \notin DOMAIN store THEN store
    ELSE [store EXCEPT ![job_id] = kwargs @@ @]

\* JobStore.get: a (shallow) copy of the record, None if unknown
JobGet(store, job_id) ==
    IF job_id \in DOMAIN store THEN store[job_id] ELSE NoRecord

\* dict.get(key, default) on a record
Field(rec, key, default) == IF key \in DOMAIN rec THEN rec[key] ELSE default

\* a list object that job_id's code allocates: a reference not yet in the heap
NewList(hp, job_id) == <<job_id, Cardinality({r \in DOMAIN hp : r[1] = job_id})>>

\* copy_runner.py _record_error: get the record, append the message to the
\* list it holds (the list object of the stored record; a new list when the
\* record is unknown or holds none), store the list back
_record_error(store, hp, job_id, message) ==
    LET job == JobGet(store, job_id)
        held == job # NoRecord /\ "errors" \in DOMAIN job
        errors == IF held THEN job.errors ELSE NewList(hp, job_id)
    IN  [store |-> JobUpdate(store, job_id, [errors |-> errors]),
         heap |-> IF held THEN [hp EXCEPT ![errors] = Append(@, message)]
                          ELSE (errors :> <<message>>) @@ hp]

\* progress_cb: None, or a callable; of a callable the model keeps the
\* invocations (by completed count) on which it raises
NoCallback == <<>>

\* one invocation of the callback, as the callback sees it
ProgressCall(done, total, path) == [done |-> done, total |-> total, path |-> path]

\* a loop body inside one try block: a callback that raises takes the
\* file's grouping with it
BuildStep_ONE_TRY(st, scan_list, progress_cb, idx) ==
    LET path == scan_list[idx]
        call == ProgressCall(idx, Len(scan_list), path.path)
    IN  IF progress_cb = NoCallback
        THEN [st EXCEPT !.files = Append(@, path),
                        !.groups = GroupAppend(@, GroupOf(path), path)]
        ELSE IF idx \in progress_cb.raises
        THEN [st EXCEPT !.calls = Append(@, call)]
        ELSE [st EXCEPT !.files = Append(@, path),
                        !.groups = GroupAppend(@, GroupOf(path), path),
                        !.calls = Append(@, call)]

\* build_mapping lines 65-80, one iteration: the file joins files and its
\* group, then the callback is invoked; what the callback raises is dropped
BuildStep(st, scan_list, progress_cb, idx) ==
    LET path == scan_list[idx]
        st1 == [st EXCEPT !.files = Append(@, path),
                          !.groups = GroupAppend(@, GroupOf(path), path)]
    IN  IF progress_cb = NoCallback THEN st1
        ELSE [st1 EXCEPT !.calls =
                Append(@, ProgressCall(idx, Len(scan_list), path.path))]

\* build_mapping lines 53-80: the locals after the first n iterations
RECURSIVE BuildLoop(_, _, _, _)
BuildLoop(source, scan_list, progress_cb, n) ==
    IF n = 0
    THEN [groups |-> <<>>, files |-> <<>>,
          calls |-> IF progress_cb = NoCallback THEN <<>>
                    ELSE <<ProgressCall(0, Len(scan_list), source.parts)>>]
    ELSE BuildStep(BuildLoop(source, scan_list, progress_cb, n - 1),
                   scan_list, progress_cb, n)

\* build_mapping(source_path, progress_cb, use_cache) as one call at time t.
\* Result: the cache after the call, either raised = TRUE or the returned
\* (groups, files), whether the scanner was called, and the invocations of
\* the callback.
build_mapping(store, source_path, progress_cb, use_cache, t) ==
    LET normalized == normalize_user_path(source_path)
        cached == IF use_cache THEN CacheGetEntry(store, normalized, t) ELSE NoEntry
        store1 == IF use_cache THEN CacheGetStore(store, normalized, t) ELSE store
    IN  IF cached # NoEntry
        THEN [store |-> store1, raised |-> FALSE, scanned |-> FALSE,
              groups |-> cached.groups, files |-> cached.files, calls |-> <<>>]
        ELSE IF ScanRaises(normalized)
        THEN [store |-> store1, raised |-> TRUE, scanned |-> TRUE,
              groups |-> <<>>, files |-> <<>>, calls |-> <<>>]
        ELSE LET scan_list == scan_images(normalized)
                 st == BuildLoop(normalized, scan_list, progress_cb, Len(scan_list))
             IN [store |-> CacheSet(store1, normalized,
                                    MappingResult(normalized, t, st.files, st.groups)),
                 raised |-> FALSE, scanned |-> TRUE,
                 groups |-> st.groups, files |-> st.files, calls |-> st.calls]

\* str(exc) of the scanner's FileNotFoundError
NotFoundMessage(source_path) ==
    <<"Source path not found", normalize_user_path(source_path).parts>>

(***************************************************************************)
(* The background jobs                                                     *)
(***************************************************************************)
\* uuid4 ids, in the order they are handed out
JobSeq == <<"j1", "j2">>
JobIds == {JobSeq[k] : k \in 1..Len(JobSeq)}
Started == DOMAIN task

\* a thread: its position and locals (the locals of _run and of _worker /
\* build_mapping together, so that all threads have one shape)
NewTask(kind, pc, source, group) ==
    [kind |-> kind, pc |-> pc, source |-> source, group |-> group,
     groups |-> <<>>, files |-> <<>>, work |-> <<>>, k |-> 0,
     processed |-> 0, copied |-> 0, failed |-> 0, duplicates |-> 0,
     dup_root |-> NoPath, scan_list |-> <<>>, idx |-> 0, total |-> 0,
     fresh |-> FALSE]

\* ghost: what the thread has done so far
NewTrace ==
    [attempted |-> <<>>,      \* files copy_file was called for, in order
     raised |-> <<>>,         \* files for which copy_file raised
     build_raised |-> FALSE,  \* build_mapping raised
     died |-> None]           \* where an uncaught exception ended the thread

Ended(j) == task[j].pc \in {"ended", "crashed"}

\* copy_runner.py line 60 and the two loops of lines 63-64, flattened:
\* the (group, path) pairs in the order the run visits them
RECURSIVE WorkFrom(_, _, _)
WorkFrom(groups, groups_to_run, i) ==
    IF i > Len(groups_to_run) THEN <<>>
    ELSE LET paths == GroupGet(groups, groups_to_run[i])
         IN [k \in 1..Len(paths) |-> [group |-> groups_to_run[i], path |-> paths[k]]]
            \o WorkFrom(groups, groups_to_run, i + 1)
\* a run that visits every group whatever group was named
Work_ALL(groups, group_name) == WorkFrom(groups, GroupKeys(groups), 1)
Work(groups, group_name) ==
    WorkFrom(groups, IF group_name # None THEN <<group_name>> ELSE GroupKeys(groups), 1)

\* _DUP_LABEL.sub("_", value), key by key: the group keys of the model that
\* hold a character of the class [\\/:*?"<>|]
DupLabelTable == ("G:2" :> "G_2")

\* a label used as it is
_safe_label_RAW(value) == IF value = None THEN "Ungrouped" ELSE value

\* copy_runner.py _safe_label
_safe_label(value) ==
    IF value = None THEN "Ungrouped"
    ELSE IF value \in DOMAIN DupLabelTable THEN DupLabelTable[value]
    ELSE value

DupRootDir == OutRoot \o <<"Y_duplicates">>

\* after a file: the next file, or the end of the loops
Advance(t) ==
    IF t.k < Len(t.work) THEN [t EXCEPT !.pc = "mark", !.k = @ + 1]
    ELSE [t EXCEPT !.pc = "finish"]

(***************************************************************************)
(* copy_runner.py                                                          *)
(***************************************************************************)
\* start_copy_job: create the record, then launch the thread
StartCopyJob(source, group) ==
    /\ Cardinality(Started) < Len(JobSeq)
    /\ LET job_id == JobSeq[Cardinality(Started) + 1]
           errors == <<job_id, 0>>
       IN /\ copy_jobs' = JobCreate(copy_jobs, job_id,
                                    [state |-> "pending", errors |-> errors])
          /\ heap' = (errors :> <<>>) @@ heap
          /\ task' = (job_id :> NewTask("copy", "build", source, group)) @@ task
          /\ trace' = (job_id :> NewTrace) @@ trace
    /\ UNCHANGED <<dirs, files, hist, polled, rules, media, now, cache, preview_jobs>>

\* a build failure that nobody catches: the thread dies, the record stays
CopyBuild_UNCAUGHT(j) ==
    /\ task[j].kind = "copy" /\ task[j].pc = "build"
    /\ LET r == build_mapping(cache, task[j].source, NoCallback, TRUE, now)
       IN /\ cache' = r.store
          /\ IF r.raised
             THEN /\ task' = [task EXCEPT ![j].pc = "crashed"]
                  /\ trace' = [trace EXCEPT ![j].build_raised = TRUE]
             ELSE /\ task' = [task EXCEPT ![j].pc = "running",
                                          ![j].groups = r.groups,
                                          ![j].files = r.files]
                  /\ UNCHANGED trace
    /\ UNCHANGED <<dirs, files, hist, polled, rules, media, now, preview_jobs, heap, copy_jobs>>

\* _run lines 36-40: build the mapping; on an exception mark the job error
CopyBuild(j) ==
    /\ task[j].kind = "copy" /\ task[j].pc = "build"
    /\ LET r == build_mapping(cache, task[j].source, NoCallback, TRUE, now)
       IN /\ cache' = r.store
          /\ IF r.raised
             THEN /\ copy_jobs' = JobUpdate(copy_jobs, j,
                        [state |-> "error", error |-> NotFoundMessage(task[j].source)])
                  /\ task' = [task EXCEPT ![j].pc = "ended"]
                  /\ trace' = [trace EXCEPT ![j].build_raised = TRUE]
             ELSE /\ task' = [task EXCEPT ![j].pc = "running",
                                          ![j].groups = r.groups,
                                          ![j].files = r.files]
                  /\ UNCHANGED <<copy_jobs, trace>>
    /\ UNCHANGED <<dirs, files, hist, polled, rules, media, now, preview_jobs, heap>>

\* a run that publishes state running and leaves the counters for later
CopyRunning_STATE_ONLY(j) ==
    /\ task[j].kind = "copy" /\ task[j].pc = "running"
    /\ copy_jobs' = JobUpdate(copy_jobs, j, [state |-> "running"])
    /\ task' = [task EXCEPT ![j].pc = "destroot", ![j].total = Len(task[j].files)]
    /\ UNCHANGED <<dirs, files, hist, polled, rules, media, now, cache, preview_jobs, heap, trace>>

\* _run lines 42-51: publish the counters and state running
CopyRunning(j) ==
    /\ task[j].kind = "copy" /\ task[j].pc = "running"
    /\ copy_jobs' = JobUpdate(copy_jobs, j,
            [total |-> Len(task[j].files), processed |-> 0, copied |-> 0,
             failed |-> 0, duplicates |-> 0, state |-> "running"])
    /\ task' = [task EXCEPT ![j].pc = "destroot", ![j].total = Len(task[j].files)]
    /\ UNCHANGED <<dirs, files, hist, polled, rules, media, now, cache, preview_jobs, heap, trace>>

\* _run lines 52-61: create the destination root (an OSError here is caught
\* by nobody: the thread dies), publish it, and set up the loops
CopyDestRoot(j, mkdir_fails) ==
    /\ task[j].kind = "copy" /\ task[j].pc = "destroot"
    /\ IF mkdir_fails
       THEN /\ task' = [task EXCEPT ![j].pc = "crashed"]
            /\ trace' = [trace EXCEPT ![j].died = "dest_root.mkdir"]
            /\ UNCHANGED <<dirs, copy_jobs>>
       ELSE /\ dirs' = MkdirParents(dirs, OutRoot)
            /\ copy_jobs' = JobUpdate(copy_jobs, j, [dest |-> OutRoot])
            /\ LET work == Work(task[j].groups, task[j].group)
               IN task' = [task EXCEPT ![j] =
                            [@ EXCEPT !.work = work, !.k = IF work = <<>> THEN 0 ELSE 1,
                                      !.pc = IF work = <<>> THEN "finish" ELSE "mark"]]
            /\ UNCHANGED trace
    /\ UNCHANGED <<files, hist, polled, rules, media, now, cache, preview_jobs, heap>>

\* a run that counts the file but publishes nothing before the copy
CopyMark_SILENT(j) ==
    /\ task[j].kind = "copy" /\ task[j].pc = "mark"
    /\ task' = [task EXCEPT ![j].processed = @ + 1, ![j].pc = "copy"]
    /\ UNCHANGED <<dirs, files, hist, polled, rules, media, now, cache, copy_jobs,
                   preview_jobs, heap, trace>>

\* _run lines 65-66: count the file and publish it as the current one
CopyMark(j) ==
    /\ task[j].kind = "copy" /\ task[j].pc = "mark"
    /\ LET w == task[j].work[task[j].k]
       IN copy_jobs' = JobUpdate(copy_jobs, j,
            [processed |-> task[j].processed + 1, current_group |-> w.group,
             current_file |-> w.path.path])
    /\ task' = [task EXCEPT ![j].processed = @ + 1, ![j].pc = "copy"]
    /\ UNCHANGED <<dirs, files, hist, polled, rules, media, now, cache, preview_jobs, heap, trace>>

\* a run that does not count the files it copied
CopyOne_UNCOUNTED(j, fault) ==
    /\ task[j].kind = "copy" /\ task[j].pc = "copy"
    /\ LET w == task[j].work[task[j].k]
           r == copy_file(dirs, files, w.path, OutRoot \o <<w.group>>, FALSE, fault)
       IN /\ dirs' = r.dirs
          /\ files' = r.files
          /\ IF r.raised
             THEN /\ task' = [task EXCEPT ![j].failed = @ + 1, ![j].pc = "record_error"]
                  /\ trace' = [trace EXCEPT ![j].attempted = Append(@, w.path.path),
                                            ![j].raised = Append(@, w.path.path)]
                  /\ UNCHANGED copy_jobs
             ELSE IF r.status = "skipped_identical"
             THEN /\ copy_jobs' = JobUpdate(copy_jobs, j,
                                            [duplicates |-> task[j].duplicates + 1])
                  /\ task' = [task EXCEPT ![j].duplicates = @ + 1,
                                ![j].pc = IF task[j].dup_root = NoPath
                                          THEN "dup_root" ELSE "dup_copy"]
                  /\ trace' = [trace EXCEPT ![j].attempted = Append(@, w.path.path)]
             ELSE /\ task' = [task EXCEPT ![j] = Advance(@)]
                  /\ trace' = [trace EXCEPT ![j].attempted = Append(@, w.path.path)]
                  /\ UNCHANGED copy_jobs
    /\ UNCHANGED <<hist, polled, rules, media, now, cache, preview_jobs, heap>>

\* _run lines 67-70, 75-77, 86-88: copy_file and the counter of its outcome
CopyOne(j, fault) ==
    /\ task[j].kind = "copy" /\ task[j].pc = "copy"
    /\ LET w == task[j].work[task[j].k]
           r == copy_file(dirs, files, w.path, OutRoot \o <<w.group>>, FALSE, fault)
       IN /\ dirs' = r.dirs
          /\ files' = r.files
          /\ IF r.raised
             THEN /\ task' = [task EXCEPT ![j].failed = @ + 1, ![j].pc = "record_error"]
                  /\ trace' = [trace EXCEPT ![j].attempted = Append(@, w.path.path),
                                            ![j].raised = Append(@, w.path.path)]
                  /\ UNCHANGED copy_jobs
             ELSE IF r.status = "skipped_identical"
             THEN /\ copy_jobs' = JobUpdate(copy_jobs, j,
                                            [duplicates |-> task[j].duplicates + 1])
                  /\ task' = [task EXCEPT ![j].duplicates = @ + 1,
                                ![j].pc = IF task[j].dup_root = NoPath
                                          THEN "dup_root" ELSE "dup_copy"]
                  /\ trace' = [trace EXCEPT ![j].attempted = Append(@, w.path.path)]
             ELSE /\ copy_jobs' = JobUpdate(copy_jobs, j, [copied |-> task[j].copied + 1])
                  /\ task' = [task EXCEPT ![j] = Advance([@ EXCEPT !.copied = @ + 1])]
                  /\ trace' = [trace EXCEPT ![j].attempted = Append(@, w.path.path)]
    /\ UNCHANGED <<hist, polled, rules, media, now, cache, preview_jobs, heap>>

\* _run line 71: _record_error(job_id, f"Copy failed for {path}: {exc}")
RecordError(j) ==
    /\ task[j].kind = "copy" /\ task[j].pc = "record_error"
    /\ LET message == <<"Copy failed for", task[j].work[task[j].k].path.path>>
           r == _record_error(copy_jobs, heap, j, message)
       IN /\ heap' = r.heap
          /\ copy_jobs' = r.store
    /\ task' = [task EXCEPT ![j].pc = "fail_count"]
    /\ UNCHANGED <<dirs, files, hist, polled, rules, media, now, cache, preview_jobs, trace>>

\* a failed copy that ends the loops (break in place of continue)
CopyFailed_BREAK(j) ==
    /\ task[j].kind = "copy" /\ task[j].pc = "fail_count"
    /\ copy_jobs' = JobUpdate(copy_jobs, j, [failed |-> task[j].failed])
    /\ task' = [task EXCEPT ![j].pc = "finish"]
    /\ UNCHANGED <<dirs, files, hist, polled, rules, media, now, cache, preview_jobs, heap, trace>>

\* _run lines 72-73: publish failed, continue with the next file
CopyFailed(j) ==
    /\ task[j].kind = "copy" /\ task[j].pc = "fail_count"
    /\ copy_jobs' = JobUpdate(copy_jobs, j, [failed |-> task[j].failed])
    /\ task' = [task EXCEPT ![j] = Advance(@)]
    /\ UNCHANGED <<dirs, files, hist, polled, rules, media, now, cache, preview_jobs, heap, trace>>

\* _run lines 78-84: the first duplicate creates the holding area (an
\* OSError here is caught by nobody)
CopyDupRoot(j, mkdir_fails) ==
    /\ task[j].kind = "copy" /\ task[j].pc = "dup_root"
    /\ IF mkdir_fails
       THEN /\ task' = [task EXCEPT ![j].pc = "crashed"]
            /\ trace' = [trace EXCEPT ![j].died = "dup_root.mkdir"]
            /\ UNCHANGED <<dirs, copy_jobs>>
       ELSE /\ dirs' = MkdirParents(dirs, DupRootDir)
            /\ copy_jobs' = JobUpdate(copy_jobs, j, [duplicates_dir |-> DupRootDir])
            /\ task' = [task EXCEPT ![j].dup_root = DupRootDir, ![j].pc = "dup_copy"]
            /\ UNCHANGED trace
    /\ UNCHANGED <<files, hist, polled, rules, media, now, cache, preview_jobs, heap>>

\* _copy_duplicates (lines 26-32): mkdir outside the try, copy2 inside it;
\* a failed copy2 stores a new errors list
CopyDuplicates(j, fault) ==
    /\ task[j].kind = "copy" /\ task[j].pc = "dup_copy"
    /\ LET w == task[j].work[task[j].k]
           group_dir == task[j].dup_root \o <<_safe_label(w.group)>>
       IN IF fault = "mkdir"
          THEN /\ task' = [task EXCEPT ![j].pc = "crashed"]
               /\ trace' = [trace EXCEPT ![j].died = "group_dir.mkdir"]
               /\ UNCHANGED <<dirs, files, copy_jobs, heap>>
          ELSE /\ dirs' = MkdirParents(dirs, group_dir)
               /\ task' = [task EXCEPT ![j] = Advance(@)]
               /\ UNCHANGED trace
               /\ IF fault = "copy"
                  THEN LET old == Field(JobGet(copy_jobs, j), "errors", NoPath)
                           new == NewList(heap, j)
                       IN /\ heap' = (new :> Append(IF old = NoPath THEN <<>> ELSE heap[old],
                                           <<"Duplicate copy failed", w.path.path>>)) @@ heap
                          /\ copy_jobs' = JobUpdate(copy_jobs, j, [errors |-> new])
                          /\ UNCHANGED files
                  ELSE /\ files' = (FilePath(group_dir, w.path.name) :> w.path.content) @@ files
                       /\ UNCHANGED <<copy_jobs, heap>>
    /\ UNCHANGED <<hist, polled, rules, media, now, cache, preview_jobs>>

\* a run that drops its record when it completes
CopyFinish_EVICT(j) ==
    /\ task[j].kind = "copy" /\ task[j].pc = "finish"
    /\ copy_jobs' = [id \in DOMAIN copy_jobs \ {j} |-> copy_jobs[id]]
    /\ task' = [task EXCEPT ![j].pc = "ended"]
    /\ UNCHANGED <<dirs, files, hist, polled, rules, media, now, cache, preview_jobs, heap, trace>>

\* _run lines 90-94: every pair was attempted, publish done
CopyFinish(j) ==
    /\ task[j].kind = "copy" /\ task[j].pc = "finish"
    /\ copy_jobs' = JobUpdate(copy_jobs, j,
            [state |-> "done", current_file |-> NoPath, current_group |-> None])
    /\ task' = [task EXCEPT ![j].pc = "ended"]
    /\ UNCHANGED <<dirs, files, hist, polled, rules, media, now, cache, preview_jobs, heap, trace>>

(***************************************************************************)
(* preview_runner.py                                                       *)
(***************************************************************************)
SampleLimit == 3

Min(a, b) == IF a < b THEN a ELSE b

\* _to_preview_payload: total, and per group its name, count and samples
_to_preview_payload(groups, fl) ==
    [total |-> Len(fl),
     groups |-> [k \in 1..Len(groups) |->
        [name |-> groups[k].group, count |-> Len(groups[k].paths),
         samples |-> [i \in 1..Min(SampleLimit, Len(groups[k].paths)) |->
                        groups[k].paths[i].path]]]]

\* start_preview_job
StartPreviewJob(source) ==
    /\ Cardinality(Started) < Len(JobSeq)
    /\ LET job_id == JobSeq[Cardinality(Started) + 1]
           errors == <<job_id, 0>>
       IN /\ preview_jobs' = JobCreate(preview_jobs, job_id,
                [state |-> "pending", processed |-> 0, total |-> 0, errors |-> errors])
          /\ heap' = (errors :> <<>>) @@ heap
          /\ task' = (job_id :> NewTask("preview", "p_running", source, None)) @@ task
          /\ trace' = (job_id :> NewTrace) @@ trace
    /\ UNCHANGED <<dirs, files, hist, polled, rules, media, now, cache, copy_jobs>>

\* _worker line 27
PreviewRunning(j) ==
    /\ task[j].kind = "preview" /\ task[j].pc = "p_running"
    /\ preview_jobs' = JobUpdate(preview_jobs, j, [state |-> "running"])
    /\ task' = [task EXCEPT ![j].pc = "p_build"]
    /\ UNCHANGED <<dirs, files, hist, polled, rules, media, now, cache, copy_jobs, heap, trace>>

\* build_mapping lines 46-63 inside _worker: the cache lookup, the scan and
\* the callback progress(0, total, source); a scan that raises is caught by
\* _worker (lines 42-43)
PreviewBuild(j) ==
    /\ task[j].kind = "preview" /\ task[j].pc = "p_build"
    /\ LET normalized == normalize_user_path(task[j].source)
           cached == CacheGetEntry(cache, normalized, now)
       IN /\ cache' = CacheGetStore(cache, normalized, now)
          /\ IF cached # NoEntry
             THEN /\ task' = [task EXCEPT ![j].groups = cached.groups,
                                          ![j].files = cached.files,
                                          ![j].pc = "p_finish"]
                  /\ UNCHANGED <<preview_jobs, trace>>
             ELSE IF ScanRaises(normalized)
             THEN /\ preview_jobs' = JobUpdate(preview_jobs, j,
                        [state |-> "error", error |-> NotFoundMessage(task[j].source)])
                  /\ task' = [task EXCEPT ![j].pc = "ended"]
                  /\ trace' = [trace EXCEPT ![j].build_raised = TRUE]
             ELSE LET scan_list == scan_images(normalized)
                      total == Len(scan_list)
                  IN /\ preview_jobs' = JobUpdate(preview_jobs, j,
                            [total |-> total, processed |-> 0,
                             current_file |-> normalized.parts])
                     /\ task' = [task EXCEPT ![j].scan_list = scan_list,
                                    ![j].total = total, ![j].idx = 0,
                                    ![j].fresh = TRUE,
                                    ![j].pc = IF total = 0 THEN "p_finish" ELSE "p_file"]
                     /\ UNCHANGED trace
    /\ UNCHANGED <<dirs, files, hist, polled, rules, media, now, copy_jobs, heap>>

\* a callback that publishes the number of files left in place of the
\* number done
PreviewFile_REMAINING(j) ==
    /\ task[j].kind = "preview" /\ task[j].pc = "p_file"
    /\ LET idx == task[j].idx + 1
           path == task[j].scan_list[idx]
       IN /\ preview_jobs' = JobUpdate(preview_jobs, j,
                [total |-> task[j].total, processed |-> task[j].total - idx,
                 current_file |-> path.path])
          /\ task' = [task EXCEPT ![j].idx = idx,
                        ![j].files = Append(@, path),
                        ![j].groups = GroupAppend(@, GroupOf(path), path),
                        ![j].pc = IF idx = task[j].total THEN "p_finish" ELSE "p_file"]
    /\ UNCHANGED <<dirs, files, hist, polled, rules, media, now, cache, copy_jobs, heap, trace>>

\* groups and files kept in one place for all callers (module globals in
\* place of locals): a file joins the lists of every build under way
PreviewFile_SHARED(j) ==
    /\ task[j].kind = "preview" /\ task[j].pc = "p_file"
    /\ LET idx == task[j].idx + 1
           path == task[j].scan_list[idx]
       IN /\ preview_jobs' = JobUpdate(preview_jobs, j,
                [total |-> task[j].total, processed |-> idx, current_file |-> path.path])
          /\ task' = [i \in DOMAIN task |->
                IF i = j
                THEN [task[i] EXCEPT !.idx = idx,
                        !.files = Append(@, path),
                        !.groups = GroupAppend(@, GroupOf(path), path),
                        !.pc = IF idx = task[j].total THEN "p_finish" ELSE "p_file"]
                ELSE IF task[i].pc = "p_file"
                THEN [task[i] EXCEPT !.files = Append(@, path),
                        !.groups = GroupAppend(@, GroupOf(path), path)]
                ELSE task[i]]
    /\ UNCHANGED <<dirs, files, hist, polled, rules, media, now, cache, copy_jobs, heap, trace>>

\* build_mapping lines 65-80 inside _worker: one file of the scan list and
\* the callback progress(idx, total, path)
PreviewFile(j) ==
    /\ task[j].kind = "preview" /\ task[j].pc = "p_file"
    /\ LET idx == task[j].idx + 1
           path == task[j].scan_list[idx]
       IN /\ preview_jobs' = JobUpdate(preview_jobs, j,
                [total |-> task[j].total, processed |-> idx, current_file |-> path.path])
          /\ task' = [task EXCEPT ![j].idx = idx,
                        ![j].files = Append(@, path),
                        ![j].groups = GroupAppend(@, GroupOf(path), path),
                        ![j].pc = IF idx = task[j].total THEN "p_finish" ELSE "p_file"]
    /\ UNCHANGED <<dirs, files, hist, polled, rules, media, now, cache, copy_jobs, heap, trace>>

\* build_mapping lines 82-84 (a fresh build stores its result) and _worker
\* lines 38-41: publish the payload and done
PreviewFinish(j) ==
    /\ task[j].kind = "preview" /\ task[j].pc = "p_finish"
    /\ cache' = IF task[j].fresh
                THEN LET normalized == normalize_user_path(task[j].source)
                     IN CacheSet(cache, normalized,
                            MappingResult(normalized, now, task[j].files, task[j].groups))
                ELSE cache
    /\ preview_jobs' = JobUpdate(preview_jobs, j,
            [result |-> _to_preview_payload(task[j].groups, task[j].files),
             state |-> "done"])
    /\ task' = [task EXCEPT ![j].pc = "ended"]
    /\ UNCHANGED <<dirs, files, hist, polled, rules, media, now, copy_jobs, heap, trace>>

(***************************************************************************)
(* Spec: the jobs, the clock                                               *)
(***************************************************************************)
Tick ==
    /\ now < MaxTicks * TickSeconds
    /\ now' = now + TickSeconds
    /\ UNCHANGED <<dirs, files, hist, polled, rules, media, cache, copy_jobs, preview_jobs, heap, task, trace>>

Init ==
    /\ dirs = {}
    /\ files = <<>>
    /\ hist = [n |-> 0, calls |-> <<>>]
    /\ polled = <<>>
    /\ rules = <<>>
    /\ \E g \in [1..MaxFiles -> Groups] :
         media = (PhotosRoot :> [i \in 1..MaxFiles |-> MediaFile(i, g[i])])
    /\ now = 0
    /\ cache = <<>>
    /\ copy_jobs = <<>>
    /\ preview_jobs = <<>>
    /\ heap = <<>>
    /\ task = <<>>
    /\ trace = <<>>

Next ==
    \/ \E source \in SourceArgs, group \in GroupArgs : StartCopyJob(source, group)
    \/ \E source \in SourceArgs : StartPreviewJob(source)
    \/ \E j \in Started : CopyBuild(j)
    \/ \E j \in Started : CopyRunning(j)
    \/ \E j \in Started, mkdir_fails \in BOOLEAN : CopyDestRoot(j, mkdir_fails)
    \/ \E j \in Started : CopyMark(j)
    \/ \E j \in Started, fault \in Faults : CopyOne(j, fault)
    \/ \E j \in Started : RecordError(j)
    \/ \E j \in Started : CopyFailed(j)
    \/ \E j \in Started, mkdir_fails \in BOOLEAN : CopyDupRoot(j, mkdir_fails)
    \/ \E j \in Started, fault \in {"none", "mkdir", "copy"} : CopyDuplicates(j, fault)
    \/ \E j \in Started : CopyFinish(j)
    \/ \E j \in Started : PreviewRunning(j)
    \/ \E j \in Started : PreviewBuild(j)
    \/ \E j \in Started : PreviewFile(j)
    \/ \E j \in Started : PreviewFinish(j)
    \/ Tick

Spec == Init /\ [][Next]_vars

(***************************************************************************)
(* Claims about the jobs (checked under Spec)                              *)
(***************************************************************************)
\* the record a poll of job j reads
Rec(j) == IF task[j].kind = "copy" THEN copy_jobs[j] ELSE preview_jobs[j]
CopyJobs == {j \in Started : task[j].kind = "copy"}
PreviewJobs == {j \in Started : task[j].kind = "preview"}
Terminal == {"done", "error"}
StateEdges == {<<"pending", "running">>, <<"running", "done">>, <<"running", "error">>}
Processed(rec) == Field(rec, "processed", 0)

\* C1: a job is created pending and its state changes only along
\* pending -> running, running -> done, running -> error.
C1_StateEdges ==
    [][/\ \A j \in Started' \ Started : Rec(j)'.state = "pending"
       /\ \A j \in Started :
            Rec(j)'.state # Rec(j).state => <<Rec(j).state, Rec(j)'.state>> \in StateEdges]_vars

\* C2: once the background task of a job has ended, the job is in a
\* terminal state (done or error), whatever step of the run failed.
C2_EndedIsTerminal ==
    \A j \in Started : Ended(j) => Rec(j).state \in Terminal

\* C3: a copy job in state done has processed == total.
C3_DoneProcessedIsTotal ==
    \A j \in CopyJobs :
        copy_jobs[j].state = "done" => copy_jobs[j].processed = copy_jobs[j].total

\* C4: a copy job in state done has copied + duplicates + failed == total.
C4_DoneAccountedIsTotal ==
    \A j \in CopyJobs :
        copy_jobs[j].state = "done" =>
            copy_jobs[j].copied + copy_jobs[j].duplicates + copy_jobs[j].failed
                = copy_jobs[j].total

\* the files a copy job has to attempt, from the source tree: the files of
\* the named group, or of every group in order of first appearance
Selected(j) ==
    LET scan_list == scan_images(normalize_user_path(task[j].source))
        work == Work(GroupsOfPrefix(scan_list, Len(scan_list)), task[j].group)
    IN [k \in 1..Len(work) |-> work[k].path.path]
CopyFailedMessages(errors) == SelectSeq(errors, LAMBDA m : m[1] = "Copy failed for")

\* C5: copy_file raising for k files does not abort the run: it never
\* marks the job error, and a run whose only failures are those of
\* copy_file ends in done; at done every selected file was attempted in
\* order, failed == k, and the errors list holds exactly one "Copy failed"
\* message per failed file.
C5_PartialFailure ==
    \A j \in CopyJobs :
        /\ trace[j].raised # <<>> => copy_jobs[j].state # "error"
        /\ (Ended(j) /\ ~trace[j].build_raised /\ trace[j].died = None)
              => copy_jobs[j].state = "done"
        /\ copy_jobs[j].state = "done" =>
              /\ trace[j].attempted = Selected(j)
              /\ copy_jobs[j].failed = Len(trace[j].raised)
              /\ CopyFailedMessages(heap[copy_jobs[j].errors])
                    = [k \in 1..Len(trace[j].raised) |->
                          <<"Copy failed for", trace[j].raised[k]>>]

\* a done job with a failed file followed by a file that was still attempted
C5_Witness ==
    \E j \in CopyJobs :
        /\ copy_jobs[j].state = "done"
        /\ Len(trace[j].attempted) = MaxFiles
        /\ trace[j].raised # <<>>
        /\ trace[j].raised[1] = trace[j].attempted[1]
        /\ copy_jobs[j].failed = Len(trace[j].raised)

\* C6: the processed value of a job record never decreases.
C6_ProcessedMonotonic ==
    [][\A j \in Started : Processed(Rec(j)') >= Processed(Rec(j))]_vars

\* both kinds of job have published progress up to the last file
C6_Witness ==
    /\ \E j \in CopyJobs : Processed(copy_jobs[j]) = MaxFiles
    /\ \E j \in PreviewJobs : Processed(preview_jobs[j]) = MaxFiles

\* C7: a build_mapping that raises inside a job is caught: the job ends in
\* state error with the message stored, no file is copied, and the step
\* leaves the file system, the other jobs' records and threads unchanged.
C7_BuildFailureCaught ==
    /\ [](\A j \in Started :
            trace[j].build_raised =>
                /\ Rec(j).state = "error"
                /\ Field(Rec(j), "error", None) = NotFoundMessage(task[j].source)
                /\ task[j].pc = "ended"
                /\ trace[j].attempted = <<>>)
    /\ [][\A j \in Started :
            (trace'[j].build_raised /\ ~trace[j].build_raised) =>
                /\ files' = files /\ dirs' = dirs /\ heap' = heap
                /\ \A k \in Started \ {j} :
                     Rec(k)' = Rec(k) /\ task'[k] = task[k]]_vars

\* a copy job and a preview job failed to build while another job ran on
C7_Witness ==
    \E j, k \in Started :
        /\ j # k
        /\ trace[j].build_raised
        /\ Rec(j).state = "error"
        /\ Rec(k).state = "running"
        /\ Processed(Rec(k)) > 0

\* what a poll of id returns: api_status reads copy_jobs, api_preview_status
\* reads preview_jobs
PollCopy(id) == JobGet(copy_jobs, id)
PollPreview(id) == JobGet(preview_jobs, id)

\* C14: a job's record exists from the moment start_copy_job /
\* start_preview_job has returned its id and is never deleted: every later
\* poll of the id finds a record, whatever the jobs do and whether or not
\* they have completed; a poll of an id that was never created finds none.
C14_RecordsPersist ==
    /\ [](/\ \A j \in CopyJobs : PollCopy(j) # NoRecord
          /\ \A j \in PreviewJobs : PollPreview(j) # NoRecord
          /\ \A id \in JobIds \ CopyJobs : PollCopy(id) = NoRecord
          /\ \A id \in JobIds \ PreviewJobs : PollPreview(id) = NoRecord)
    /\ [][/\ DOMAIN copy_jobs \subseteq DOMAIN copy_jobs'
          /\ DOMAIN preview_jobs \subseteq DOMAIN preview_jobs']_vars

\* a completed copy job and an ended preview job, both still on record
C14_Witness ==
    \E j \in CopyJobs, k \in PreviewJobs :
        /\ Ended(j) /\ Ended(k)
        /\ PollCopy(j) # NoRecord /\ PollCopy(j).state = "done"
        /\ PollPreview(k) # NoRecord
        /\ PollCopy(k) = NoRecord

\* C25: before copy_file is invoked for a file, the record of the copy job
\* already shows it: whenever the run is about to copy file f, and at the
\* step in which copy_file is invoked for f, a poll reads current_file = f,
\* the group of f as current_group, and a processed count that counts f.
C25_PublishedBeforeCopy ==
    /\ [](\A j \in CopyJobs :
            task[j].pc = "copy" =>
                LET w == task[j].work[task[j].k]
                IN /\ Field(PollCopy(j), "current_file", NoPath) = w.path.path
                   /\ Field(PollCopy(j), "current_group", None) = w.group
                   /\ Field(PollCopy(j), "processed", 0) = Len(trace[j].attempted) + 1)
    /\ [][\A j \in CopyJobs :
            Len(trace'[j].attempted) > Len(trace[j].attempted) =>
                /\ Field(PollCopy(j), "current_file", NoPath) = trace'[j].attempted[Len(trace'[j].attempted)]
                /\ Field(PollCopy(j), "processed", 0) = Len(trace'[j].attempted)]_vars

\* a run about to copy its second file, published as current, processed 2
C25_Witness ==
    \E j \in CopyJobs :
        /\ task[j].pc = "copy"
        /\ Len(trace[j].attempted) = 1
        /\ PollCopy(j).processed = 2
        /\ PollCopy(j).current_file = task[j].work[2].path.path
        /\ PollCopy(j).current_file # trace[j].attempted[1]

\* what a poll shows of the duplicates of copy job j
Dups(j) == Field(PollCopy(j), "duplicates", 0)
Copied(j) == Field(PollCopy(j), "copied", 0)
HoldingSet(j) == "duplicates_dir" \in DOMAIN PollCopy(j)
\* the run stands between two files, or is over without a crash
BetweenFiles(j) == task[j].pc \in {"mark", "finish", "ended"}
\* the step in which copy_file returns for the current file of j without
\* writing and without raising: its status is skipped_identical
SkippedStep(j) ==
    /\ task[j].pc = "copy" /\ task'[j].pc # "copy"
    /\ files' = files
    /\ trace'[j].raised = trace[j].raised
\* the step in which _copy_duplicates returns for the current file of j
\* without recording an error
HeldStep(j) ==
    /\ task[j].pc = "dup_copy" /\ task'[j].pc \notin {"dup_copy", "crashed"}
    /\ PollCopy(j)'.errors = PollCopy(j).errors
\* the folder names the group keys have to get in the holding area
CleanLabel == ("G1" :> "G1") @@ ("G:2" :> "G_2")

GroupFiles(j) ==
    LET scan_list == scan_images(normalize_user_path(task[j].source))
        named == SelectSeq(scan_list, LAMBDA f : GroupOf(f) = task[j].group)
    IN  [k \in 1..Len(named) |-> named[k].path]
IsPrefix(a, b) == Len(a) <= Len(b) /\ a = SubSeq(b, 1, Len(a))
NamedGroupJobs ==
    {j \in CopyJobs : /\ task[j].group # None
                      /\ ~ScanRaises(normalize_user_path(task[j].source))}

\* C27: a copy job started with a named group invokes copy_file once for
\* each file of that group, in scan order, and for no other file; when the
\* name is no key of the mapping it copies nothing, and a run that no
\* uncaught error ended is done.
C27_NamedGroupOnly ==
    \A j \in NamedGroupJobs :
        /\ IsPrefix(trace[j].attempted, GroupFiles(j))
        /\ PollCopy(j).state = "done" => trace[j].attempted = GroupFiles(j)
        /\ GroupFiles(j) = <<>> => Copied(j) = 0
        /\ (Ended(j) /\ trace[j].died = None) => PollCopy(j).state = "done"

\* a job for G1 is done having attempted the one file of G1 out of a tree
\* with a file of another group, and a job for G9, no key, is done having
\* attempted nothing
C27_Witness ==
    \E j, k \in NamedGroupJobs :
        /\ task[j].group = "G1" /\ task[k].group = "G9"
        /\ PollCopy(j).state = "done" /\ PollCopy(k).state = "done"
        /\ Len(trace[j].attempted) = 1
        /\ Len(scan_images(normalize_user_path(task[j].source))) > 1
        /\ \E f \in {scan_images(PhotosRoot)[i] : i \in 1..MaxFiles} : GroupOf(f) # "G1"
        /\ trace[k].attempted = <<>>

\* what a poll shows of the counters of a copy job, from its record
Failed(rec) == Field(rec, "failed", 0)
Accounted(rec) == Field(rec, "copied", 0) + Field(rec, "duplicates", 0) + Failed(rec)
Observable(rec) == rec.state \in {"running", "done"}

\* C32: in every state of a copy job that a poll can observe from running
\* onwards, copied + duplicates + failed <= processed <= total and processed
\* exceeds copied + duplicates + failed by at most 1; each attempted file
\* increments exactly one of copied, duplicates, failed (no counter ever
\* decreases, a step raises their sum by at most 1, and processed moves on by
\* 1 only when the files before are all accounted for); at done the
\* difference is 0.
C32_CountersAccount ==
    /\ [](\A j \in DOMAIN copy_jobs :
            Observable(copy_jobs[j]) =>
                LET open == Processed(copy_jobs[j]) - Accounted(copy_jobs[j])
                IN /\ open \in {0, 1}
                   /\ Processed(copy_jobs[j]) <= Field(copy_jobs[j], "total", 0)
                   /\ copy_jobs[j].state = "done" => open = 0)
    /\ [][\A j \in DOMAIN copy_jobs :
            (copy_jobs'[j] # copy_jobs[j] /\ Observable(copy_jobs[j])
                                          /\ Observable(copy_jobs'[j])) =>
                /\ Field(copy_jobs'[j], "copied", 0) >= Field(copy_jobs[j], "copied", 0)
                /\ Field(copy_jobs'[j], "duplicates", 0) >= Field(copy_jobs[j], "duplicates", 0)
                /\ Failed(copy_jobs'[j]) >= Failed(copy_jobs[j])
                /\ Accounted(copy_jobs'[j]) - Accounted(copy_jobs[j]) \in {0, 1}
                /\ Processed(copy_jobs'[j]) # Processed(copy_jobs[j]) =>
                      /\ Processed(copy_jobs'[j]) = Processed(copy_jobs[j]) + 1
                      /\ Accounted(copy_jobs[j]) = Processed(copy_jobs[j])]_vars

\* a job observed while a file is attempted and not yet counted, and a done
\* job whose two files were counted in two different counters
C32_Witness ==
    /\ \E j \in CopyJobs :
         /\ PollCopy(j).state = "running"
         /\ PollCopy(j).processed = 2 /\ Accounted(PollCopy(j)) = 1
    /\ \E j \in CopyJobs :
         /\ PollCopy(j).state = "done"
         /\ PollCopy(j).processed = MaxFiles
         /\ Cardinality({c \in {"copied", "duplicates", "failed"} : PollCopy(j)[c] = 1}) = 2

\* the fields a running or done copy job shows
CounterFields == {"total", "processed", "copied", "failed", "duplicates"}

\* C33: job state is published together with the data it implies: a poll
\* that observes a preview job in state done also observes its result
\* payload; a poll that observes a copy job in state running or done also
\* observes total, processed, copied, failed and duplicates in the record;
\* a poll that observes a copy job in state done observes current_file and
\* current_group cleared.
C33_StateWithData ==
    /\ \A j \in PreviewJobs :
          PollPreview(j).state = "done" =>
              /\ "result" \in DOMAIN PollPreview(j)
              /\ PollPreview(j).result.total = Len(task[j].files)
    /\ \A j \in CopyJobs :
          /\ PollCopy(j).state \in {"running", "done"} =>
                CounterFields \subseteq DOMAIN PollCopy(j)
          /\ PollCopy(j).state = "done" =>
                /\ Field(PollCopy(j), "current_file", <<"unset">>) = NoPath
                /\ Field(PollCopy(j), "current_group", "unset") = None

\* a done preview job with its payload next to a done copy job that has
\* attempted a file and shows no current file
C33_Witness ==
    /\ \E j \in PreviewJobs :
          /\ PollPreview(j).state = "done"
          /\ PollPreview(j).result.total = MaxFiles
    /\ \E j \in CopyJobs :
          /\ PollCopy(j).state = "done"
          /\ PollCopy(j).processed >= 1
          /\ PollCopy(j).current_file = NoPath

(***************************************************************************)
(* SpecStore: the JobStore operations, called one after another by their   *)
(* clients (the runners' _record_error, and a poller that keeps what get   *)
(* returned)                                                               *)
(***************************************************************************)
\* the initial dicts of create and the keyword arguments of update
Initials == <<[state |-> "pending", errors |-> <<>>],
              [state |-> "pending", processed |-> 0, total |-> 0, errors |-> <<>>]>>
Kwargs == <<[state |-> "running"], [processed |-> 1, total |-> 2],
            [state |-> "error", error |-> "boom"]>>

\* a record with the list it refers to written out: what its holder reads
View(rec, hp) ==
    IF rec # NoRecord /\ "errors" \in DOMAIN rec
    THEN [rec EXCEPT !.errors = hp[rec.errors]]
    ELSE rec

NoPoll == <<>>

StoreCall(op, job_id, kwargs) ==
    [op |-> op, job_id |-> job_id, kwargs |-> kwargs,
     pre_jobs |-> copy_jobs, pre_heap |-> heap]
StoreSummary(call) == [call EXCEPT !.pre_jobs = <<>>, !.pre_heap = <<>>]
Logged(call) ==
    [n |-> hist.n + 1,
     calls |-> IF hist.calls = <<>> THEN <<call>>
               ELSE <<StoreSummary(hist.calls[Len(hist.calls)]), call>>]

InitStore ==
    /\ dirs = {}
    /\ files = <<>>
    /\ hist = [n |-> 0, calls |-> <<>>]
    /\ polled = NoPoll
    /\ rules = <<>>
    /\ media = <<>>
    /\ now = 0
    /\ cache = <<>>
    /\ copy_jobs = <<>>
    /\ preview_jobs = <<>>
    /\ heap = <<>>
    /\ task = <<>>
    /\ trace = <<>>

\* copy_jobs.create(job_id, {..., "errors": []})
StoreCreate(job_id, initial) ==
    /\ hist.n < MaxCalls
    /\ LET errors == NewList(heap, job_id)
       IN /\ copy_jobs' = JobCreate(copy_jobs, job_id, [initial EXCEPT !.errors = errors])
          /\ heap' = (errors :> <<>>) @@ heap
    /\ hist' = Logged(StoreCall("create", job_id, initial))
    /\ UNCHANGED <<dirs, files, polled, rules, media, now, cache, preview_jobs, task, trace>>

\* copy_jobs.update(job_id, **kwargs)
StoreUpdate(job_id, kwargs) ==
    /\ hist.n < MaxCalls
    /\ copy_jobs' = JobUpdate(copy_jobs, job_id, kwargs)
    /\ hist' = Logged(StoreCall("update", job_id, kwargs))
    /\ UNCHANGED <<dirs, files, polled, rules, media, now, cache, preview_jobs, heap, task, trace>>

\* job = copy_jobs.get(job_id), kept by the caller (dashboard.py api_status)
StoreGet(job_id) ==
    /\ hist.n < MaxCalls
    /\ LET r == JobGet(copy_jobs, job_id)
       IN polled' = [job_id |-> job_id, r |-> r, seen |-> View(r, heap)]
    /\ hist' = Logged(StoreCall("get", job_id, <<>>))
    /\ UNCHANGED <<dirs, files, rules, media, now, cache, copy_jobs, preview_jobs, heap, task, trace>>

\* _record_error(job_id, message), called by the job's runner
StoreRecordError(job_id, message) ==
    /\ hist.n < MaxCalls
    /\ LET r == _record_error(copy_jobs, heap, job_id, message)
       IN /\ copy_jobs' = r.store
          /\ heap' = r.heap
    /\ hist' = Logged(StoreCall("_record_error", job_id, <<>>))
    /\ UNCHANGED <<dirs, files, polled, rules, media, now, cache, preview_jobs, task, trace>>

\* the holder of a record changes it: job["errors"].append(message), as
\* _record_error does with the record it got
HolderAppends(message) ==
    /\ hist.n < MaxCalls
    /\ polled # NoPoll
    /\ polled.r # NoRecord /\ "errors" \in DOMAIN polled.r
    /\ heap' = [heap EXCEPT ![polled.r.errors] = Append(@, message)]
    /\ polled' = [polled EXCEPT !.seen = View(polled.r, heap')]
    /\ hist' = Logged(StoreCall("holder_appends", polled.job_id, <<>>))
    /\ UNCHANGED <<dirs, files, rules, media, now, cache, copy_jobs, preview_jobs, task, trace>>

\* the holder of a record changes it: job["state"] = value
HolderSets(value) ==
    /\ hist.n < MaxCalls
    /\ polled # NoPoll
    /\ polled.r # NoRecord
    /\ polled' = [polled EXCEPT !.r = [state |-> value] @@ @,
                                !.seen = [state |-> value] @@ @]
    /\ hist' = Logged(StoreCall("holder_sets", polled.job_id, <<>>))
    /\ UNCHANGED <<dirs, files, rules, media, now, cache, copy_jobs, preview_jobs, heap, task, trace>>

NextStore ==
    \/ \E job_id \in JobIds, k \in 1..Len(Initials) : StoreCreate(job_id, Initials[k])
    \/ \E job_id \in JobIds, k \in 1..Len(Kwargs) : StoreUpdate(job_id, Kwargs[k])
    \/ \E job_id \in JobIds : StoreGet(job_id)
    \/ \E job_id \in JobIds : StoreRecordError(job_id, "Copy failed")
    \/ HolderAppends("mine")
    \/ HolderSets("held")

SpecStore == InitStore /\ [][NextStore]_vars

(***************************************************************************)
(* Claims about JobStore (checked under SpecStore)                         *)
(***************************************************************************)
LastOp == hist.calls[Len(hist.calls)]
\* what get(id) returns, as its caller reads it
Got(id) == View(JobGet(copy_jobs, id), heap)
\* the step is the holder of a record changing that record
HolderStep == hist'.n # hist.n /\ LastOp'.op \in {"holder_appends", "holder_sets"}

\* C12: get returns a snapshot: the contents of a record that get returned
\* (the errors list it holds included) are changed by no later create,
\* update or runner call, and the holder changing its record does not
\* change what get returns afterwards.
C12_GetIsSnapshot ==
    /\ [](polled # NoPoll => View(polled.r, heap) = polled.seen)
    /\ [][HolderStep => \A id \in JobIds : Got(id)' = Got(id)]_vars

\* C13: update on an id that was never created creates no record and leaves
\* every record unchanged; on a known id it merges exactly the given fields
\* and leaves the other fields of the record and all other records unchanged.
C13_UpdateFrame ==
    (hist.calls # <<>> /\ LastOp.op = "update") =>
        LET c == LastOp
            pre == c.pre_jobs
        IN  /\ heap = c.pre_heap
            /\ DOMAIN copy_jobs = DOMAIN pre
            /\ \A id \in DOMAIN pre \ {c.job_id} : copy_jobs[id] = pre[id]
            /\ c.job_id \in DOMAIN pre =>
                  LET rec == copy_jobs[c.job_id]
                  IN /\ DOMAIN rec = DOMAIN pre[c.job_id] \cup DOMAIN c.kwargs
                     /\ \A f \in DOMAIN c.kwargs : rec[f] = c.kwargs[f]
                     /\ \A f \in DOMAIN pre[c.job_id] \ DOMAIN c.kwargs :
                           rec[f] = pre[c.job_id][f]

\* an update of a known record, then an update of an id that was never
\* created while that record is in the store
C13_Witness ==
    /\ Len(hist.calls) = 2
    /\ hist.calls[1].op = "update"
    /\ hist.calls[1].job_id \in DOMAIN copy_jobs
    /\ LastOp.op = "update"
    /\ LastOp.job_id \notin DOMAIN LastOp.pre_jobs
    /\ copy_jobs # <<>>
    /\ \E id \in DOMAIN copy_jobs : copy_jobs[id].state = "running"

(***************************************************************************)
(* SpecMapping: build_mapping called one call after another, while the     *)
(* source trees change and the clock runs                                  *)
(***************************************************************************)
\* a second source root, and the photo root written the posix way
AlbumRoot == [style |-> "posix", drive |-> "", parts |-> <<"album">>]
MappingArgs == {PhotosArg, PhotosRoot, AlbumRoot}

\* the callbacks a caller passes: none, one that never raises, one that
\* raises when called with the source and with the first file
Callbacks == {NoCallback, [raises |-> {}], [raises |-> {0, 1}]}

\* the trees: the photo root is missing or holds files, the album holds one
PhotoTree(n) == [i \in 1..n |-> MediaFile(i, IF i % 2 = 1 THEN "G1" ELSE "G:2")]
AlbumTree == <<[path |-> <<"album", "b.jpg">>, name |-> BaseName,
                content |-> ContentSeq[1], group |-> "G:2"]>>
\* a photo root of three files where grouping fails for the first and the
\* third (make_group_name raises, mapping.py line 74: the group is "NoLocation")
MixedTree ==
    [i \in 1..3 |-> MediaFile(i, IF i % 2 = 1 THEN "NoLocation" ELSE "G1")]
Trees ==
    {p @@ (AlbumRoot :> AlbumTree) :
        p \in {<<>>} \cup {PhotosRoot :> PhotoTree(n) : n \in {1, MaxFiles}}
                     \cup {PhotosRoot :> MixedTree}}

\* the instants of the model: the start, the ttl later, and the second
\* after each
ClockValues == {0, 1, ttl, ttl + 1}

\* the part of a finished build_mapping call that a later call is compared with
MappingSummary(call) ==
    [source_path |-> call.source_path, use_cache |-> call.use_cache, t |-> call.t,
     raised |-> call.raised, scanned |-> call.scanned]

InitMapping ==
    /\ dirs = {}
    /\ files = <<>>
    /\ hist = [n |-> 0, calls |-> <<>>]
    /\ polled = <<>>
    /\ rules = <<>>
    /\ media \in Trees
    /\ now = 0
    /\ cache = <<>>
    /\ copy_jobs = <<>>
    /\ preview_jobs = <<>>
    /\ heap = <<>>
    /\ task = <<>>
    /\ trace = <<>>

\* groups, files = build_mapping(source_path, progress_cb, use_cache)
BuildCall(source_path, progress_cb, use_cache) ==
    /\ hist.n < MaxBuilds
    /\ LET r == build_mapping(cache, source_path, progress_cb, use_cache, now)
           call == [source_path |-> source_path, progress_cb |-> progress_cb,
                    use_cache |-> use_cache, t |-> now, pre_cache |-> cache,
                    pre_media |-> media, raised |-> r.raised, scanned |-> r.scanned,
                    groups |-> r.groups, files |-> r.files, calls |-> r.calls]
       IN /\ cache' = r.store
          /\ hist' = [n |-> hist.n + 1,
                      calls |-> IF hist.calls = <<>> THEN <<call>>
                                ELSE <<MappingSummary(hist.calls[Len(hist.calls)]), call>>]
    /\ UNCHANGED <<dirs, files, polled, rules, media, now, copy_jobs, preview_jobs, heap, task, trace>>

\* between two calls, files appear or go, a root is removed or created
SourceChanges(tree) ==
    /\ hist.n < MaxBuilds
    /\ tree # media
    /\ media' = tree
    /\ UNCHANGED <<dirs, files, hist, polled, rules, now, cache, copy_jobs, preview_jobs, heap, task, trace>>

\* between two calls, time passes
ClockJump(t) ==
    /\ hist.n < MaxBuilds
    /\ t > now
    /\ now' = t
    /\ UNCHANGED <<dirs, files, hist, polled, rules, media, cache, copy_jobs, preview_jobs, heap, task, trace>>

NextMapping ==
    \/ \E source_path \in MappingArgs, progress_cb \in Callbacks, use_cache \in BOOLEAN :
            BuildCall(source_path, progress_cb, use_cache)
    \/ \E tree \in Trees : SourceChanges(tree)
    \/ \E t \in ClockValues : ClockJump(t)

SpecMapping == InitMapping /\ [][NextMapping]_vars

(***************************************************************************)
(* Claims about build_mapping and its cache (checked under SpecMapping)    *)
(***************************************************************************)
HasBuild == hist.calls # <<>>
HasTwoBuilds == Len(hist.calls) = 2
LastBuild == hist.calls[Len(hist.calls)]
PrevBuild == hist.calls[1]
Key(call) == normalize_user_path(call.source_path)
\* the cache held an entry for the call's path, of this age at the call
HadEntry(call) == Key(call) \in DOMAIN call.pre_cache
EntryOf(call) == call.pre_cache[Key(call)]
Age(call) == call.t - EntryOf(call).built_at

\* C15: with use_cache true, a call made while an entry for the normalized
\* path exists whose age is below the ttl returns that entry's groups and
\* files without scanning; a call made when there is no entry, or after the
\* entry's ttl has expired, scans.  Hence of two calls within the ttl at
\* most one scans.
C15_CachedWithinTtl ==
    (HasBuild /\ LastBuild.use_cache) =>
        LET c == LastBuild
        IN  /\ (HadEntry(c) /\ Age(c) < ttl) =>
                  /\ ~c.scanned /\ ~c.raised
                  /\ c.groups = EntryOf(c).groups
                  /\ c.files = EntryOf(c).files
            /\ (~HadEntry(c) \/ Age(c) > ttl) => c.scanned
            /\ (/\ HasTwoBuilds
                /\ PrevBuild.use_cache /\ ~PrevBuild.raised
                /\ Key(PrevBuild) = Key(c)
                /\ c.t - PrevBuild.t < ttl)
                  => ~(PrevBuild.scanned /\ c.scanned)

\* the same root, written two ways, built with two files and asked for
\* again within the ttl after a file has gone: the old mapping is returned
C15_Witness ==
    /\ HasTwoBuilds
    /\ PrevBuild.use_cache /\ PrevBuild.scanned /\ ~PrevBuild.raised
    /\ LastBuild.use_cache /\ ~LastBuild.scanned
    /\ PrevBuild.source_path # LastBuild.source_path
    /\ Key(PrevBuild) = Key(LastBuild)
    /\ LastBuild.t - PrevBuild.t = ttl - 1
    /\ Key(LastBuild) \in DOMAIN media
    /\ LastBuild.files # media[Key(LastBuild)]
    /\ Len(LastBuild.files) = MaxFiles

\* the call built afresh and returned
FreshBuild(call) == call.scanned /\ ~call.raised

\* every entry but that of path k is as it was before the call
OthersUnchanged(call, k) ==
    /\ DOMAIN cache \ {k} = DOMAIN call.pre_cache \ {k}
    /\ \A p \in DOMAIN cache \ {k} : cache[p] = call.pre_cache[p]

\* a fresh build has stored its result under the normalized path
FreshIsStored(call) ==
    FreshBuild(call) =>
        /\ Key(call) \in DOMAIN cache
        /\ cache[Key(call)] = MappingResult(Key(call), call.t, call.files, call.groups)
        /\ OthersUnchanged(call, Key(call))

\* C16 as claimed: a fresh build (miss, expired entry, or use_cache false)
\* stores its result under the normalized path, replacing the entry of that
\* path and leaving the other entries unchanged; a build that raises stores
\* nothing and leaves the cache unchanged.
C16_RaisedLeavesCache ==
    HasBuild =>
        /\ FreshIsStored(LastBuild)
        /\ LastBuild.raised => cache = LastBuild.pre_cache

\* C16 as amended: a build that raises stores nothing; the cache is as
\* before, except that an expired entry of the path, which the lookup of a
\* use_cache call drops, is gone.
C16_FreshBuildStored ==
    HasBuild =>
        LET c == LastBuild
            k == Key(c)
        IN  /\ FreshIsStored(c)
            /\ c.raised =>
                  /\ OthersUnchanged(c, k)
                  /\ k \in DOMAIN cache => (HadEntry(c) /\ cache[k] = EntryOf(c))
                  /\ (HadEntry(c) /\ k \notin DOMAIN cache) =>
                        (c.use_cache /\ Age(c) > ttl)

\* the album is cached, then the photo root is built afresh: both entries
C16_Witness ==
    /\ HasTwoBuilds
    /\ FreshBuild(LastBuild)
    /\ Key(LastBuild) = PhotosRoot
    /\ HadEntry(LastBuild) = FALSE
    /\ AlbumRoot \in DOMAIN LastBuild.pre_cache
    /\ DOMAIN cache = {PhotosRoot, AlbumRoot}
    /\ cache[AlbumRoot] = LastBuild.pre_cache[AlbumRoot]

\* the files of the call's root when it was called
ScanOf(call) == call.pre_media[Key(call)]

\* the call was a build with a callback over a root that exists
BuiltWithCallback(call) ==
    /\ call.progress_cb # NoCallback
    /\ call.scanned
    /\ Key(call) \in DOMAIN call.pre_media

\* C18: in a fresh build with a progress callback the callback is invoked
\* after each file i, in scan order, with (i, total, file_i), total being
\* the number of scanned files; a callback that raises does not abort the
\* build, which returns the mapping and file list it returns without one.
C18_ProgressCallback ==
    (HasBuild /\ BuiltWithCallback(LastBuild)) =>
        LET c == LastBuild
            total == Len(ScanOf(c))
        IN  /\ ~c.raised
            /\ SelectSeq(c.calls, LAMBDA x : x.done >= 1)
                  = [i \in 1..total |-> ProgressCall(i, total, ScanOf(c)[i].path)]
            /\ c.files = ScanOf(c)
            /\ c.groups = GroupsOfPrefix(ScanOf(c), total)

\* a callback that raised on the first file was still called for the last
C18_Witness ==
    /\ HasBuild
    /\ BuiltWithCallback(LastBuild)
    /\ 1 \in LastBuild.progress_cb.raises
    /\ Len(ScanOf(LastBuild)) = MaxFiles
    /\ Len(LastBuild.calls) = MaxFiles + 1
    /\ LastBuild.calls[MaxFiles + 1].done = MaxFiles
    /\ Len(LastBuild.files) = MaxFiles

\* the (group, position) places at which the groups hold file f
PlacesOf(groups, f) ==
    {pl \in UNION {{<<k, p>> : p \in 1..Len(groups[k].paths)} : k \in 1..Len(groups)} :
        groups[pl[1]].paths[pl[2]] = f}
RECURSIVE SumOfLengths(_, _)
SumOfLengths(groups, n) ==
    IF n = 0 THEN 0 ELSE SumOfLengths(groups, n - 1) + Len(groups[n].paths)
\* the position of f in the flat list
IndexIn(fl, f) == CHOOSE i \in 1..Len(fl) : fl[i] = f

\* C29: the result of a fresh build_mapping is a partition of the scanned
\* files: the flat list is the scan list, every file of it is at exactly
\* one place of exactly one group, the lengths of the groups add up to the
\* length of the flat list, no group key occurs twice, and inside a group
\* the files are in the order of the flat list; also when grouping failed
\* for some of the files.
C29_Partition ==
    (HasBuild /\ FreshBuild(LastBuild)) =>
        LET groups == LastBuild.groups
            fl == LastBuild.files
        IN /\ fl = ScanOf(LastBuild)
           /\ \A i \in 1..Len(fl) : Cardinality(PlacesOf(groups, fl[i])) = 1
           /\ SumOfLengths(groups, Len(groups)) = Len(fl)
           /\ \A k, m \in 1..Len(groups) : groups[k].group = groups[m].group => k = m
           /\ \A k \in 1..Len(groups) :
                \A p, q \in 1..Len(groups[k].paths) :
                    p < q => IndexIn(fl, groups[k].paths[p]) < IndexIn(fl, groups[k].paths[q])

\* a fresh build over a root where grouping failed for the first and the
\* third file: both are in NoLocation, in scan order, around the file of G1
C29_Witness ==
    /\ HasBuild /\ FreshBuild(LastBuild)
    /\ Len(LastBuild.files) = 3
    /\ \E k \in 1..Len(LastBuild.groups) :
          /\ LastBuild.groups[k].group = "NoLocation"
          /\ Len(LastBuild.groups[k].paths) >= 2
          /\ LastBuild.groups[k].paths[1] = LastBuild.files[1]
          /\ LastBuild.groups[k].paths[2] = LastBuild.files[3]
    /\ \E k \in 1..Len(LastBuild.groups) : LastBuild.groups[k].group = "G1"

(***************************************************************************)
(* SpecBuilders: callers running build_mapping concurrently (the preview   *)
(* workers) on one root, while the root's files change and the clock runs  *)
(***************************************************************************)
\* the photo root, written the Windows way and the posix way
BuilderArgs == {PhotosArg, PhotosRoot}

NextBuilders ==
    \/ \E source \in BuilderArgs : StartPreviewJob(source)
    \/ \E j \in Started : PreviewRunning(j)
    \/ \E j \in Started : PreviewBuild(j)
    \/ \E j \in Started : PreviewFile(j)
    \/ \E j \in Started : PreviewFinish(j)
    \/ \E tree \in Trees : SourceChanges(tree)
    \/ \E t \in ClockValues : ClockJump(t)

SpecBuilders == InitMapping /\ [][NextBuilders]_vars

\* the builds that ran the scan and the loop to the end
Builders == {j \in Started : task[j].fresh}
BuilderKey(j) == normalize_user_path(task[j].source)

\* every file of fl is in the list of exactly one group, once, and the
\* groups hold nothing else
Partitions(groups, fl) ==
    /\ \A i \in 1..Len(fl) :
          \E k \in 1..Len(groups) :
            /\ \E n \in 1..Len(groups[k].paths) : groups[k].paths[n] = fl[i]
            /\ \A m \in 1..Len(groups) \ {k} :
                  \A n \in 1..Len(groups[m].paths) : groups[m].paths[n] # fl[i]
    /\ \A k \in 1..Len(groups) :
          /\ groups[k].paths # <<>>
          /\ \A n \in 1..Len(groups[k].paths) :
                /\ \E i \in 1..Len(fl) : fl[i] = groups[k].paths[n]
                /\ \A m \in 1..Len(groups[k].paths) :
                      groups[k].paths[m] = groups[k].paths[n] => m = n

\* entry is the complete result of build j: its scan list, grouped
ResultOf(entry, j) ==
    /\ entry.files = task[j].scan_list
    /\ entry.groups = GroupsOfPrefix(task[j].scan_list, Len(task[j].scan_list))

\* C17: with callers running build_mapping concurrently for one source
\* path, the cache entry of the path is at all times absent or the complete
\* result of one caller (its groups partition its own file list); the
\* caller that stores last wins; no entry mixes two builds.
C17_EntryIsOneBuild ==
    /\ [](\A k \in DOMAIN cache :
            /\ Partitions(cache[k].groups, cache[k].files)
            /\ \E j \in Builders :
                  BuilderKey(j) = k /\ task[j].pc = "ended" /\ ResultOf(cache[k], j))
    /\ [][\A j \in Builders :
            (task[j].pc = "p_finish" /\ task'[j].pc = "ended") =>
                /\ BuilderKey(j) \in DOMAIN cache'
                /\ ResultOf(cache'[BuilderKey(j)], j)]_vars

\* two builds of the root overlapped, scanned different trees, and the
\* entry is the result of the one that stored last, replacing the other's
C17_Witness ==
    \E j, k \in Builders :
        /\ j # k
        /\ BuilderKey(j) = BuilderKey(k)
        /\ task[j].pc = "ended" /\ task[k].pc = "ended"
        /\ task[j].scan_list # task[k].scan_list
        /\ Len(task[j].scan_list) = MaxFiles
        /\ BuilderKey(k) \in DOMAIN cache
        /\ ResultOf(cache[BuilderKey(k)], k)
        /\ ~ResultOf(cache[BuilderKey(k)], j)

(***************************************************************************)
(* Text.  A Python str is a sequence of pieces: a piece is one character   *)
(* (each space, comma or character that a pattern of the code names is a   *)
(* piece of its own) or a run of letters and digits.  None and the empty   *)
(* str, which the code tests the same way (not place, place or ...), are   *)
(* both the empty sequence.                                                *)
(***************************************************************************)
NoText == <<>>

\* \s of the re module, as far as the model's texts go
Whitespace == {" ", "\t"}

\* str.lower()
str_lower(s) == [i \in 1..Len(s) |-> Lower(s[i])]

\* str.strip()
RECURSIVE lstrip(_)
lstrip(s) == IF s # <<>> /\ Head(s) \in Whitespace THEN lstrip(Tail(s)) ELSE s
RECURSIVE rstrip(_)
rstrip(s) ==
    IF s # <<>> /\ s[Len(s)] \in Whitespace THEN rstrip(SubSeq(s, 1, Len(s) - 1)) ELSE s
strip(s) == rstrip(lstrip(s))

\* re.sub(r"\s+", " ", s): every run of whitespace becomes one space
RECURSIVE CollapseFrom(_, _)
CollapseFrom(s, i) ==
    IF i > Len(s) THEN <<>>
    ELSE IF s[i] \notin Whitespace THEN <<s[i]>> \o CollapseFrom(s, i + 1)
    ELSE IF i > 1 /\ s[i - 1] \in Whitespace THEN CollapseFrom(s, i + 1)
    ELSE <<" ">> \o CollapseFrom(s, i + 1)

\* s.split(",")[0]
BeforeComma(s) ==
    IF \E i \in 1..Len(s) : s[i] = ","
    THEN SubSeq(s, 1, (CHOOSE i \in 1..Len(s) :
                        s[i] = "," /\ \A k \in 1..(i - 1) : s[k] # ",") - 1)
    ELSE s

\* s.replace(" ", "")
RemoveSpaces(s) == SelectSeq(s, LAMBDA c : c # " ")

(***************************************************************************)
(* events.py                                                               *)
(***************************************************************************)
date(y, m, d) == [year |-> y, month |-> m, day |-> d]
NoDate == <<>>

\* datetime.date: the proleptic Gregorian calendar
IsLeap(y) == (y % 4 = 0 /\ y % 100 # 0) \/ y % 400 = 0
DaysInMonth(y, m) ==
    IF m = 2 THEN (IF IsLeap(y) THEN 29 ELSE 28)
    ELSE IF m \in {4, 6, 9, 11} THEN 30 ELSE 31
RECURSIVE DaysBeforeMonth(_, _)
DaysBeforeMonth(y, m) ==
    IF m = 1 THEN 0 ELSE DaysBeforeMonth(y, m - 1) + DaysInMonth(y, m - 1)
\* date.toordinal(): day 1 is 0001-01-01
toordinal(dt) ==
    LET y == dt.year - 1
    IN  y * 365 + y \div 4 - y \div 100 + y \div 400
        + DaysBeforeMonth(dt.year, dt.month) + dt.day
\* date.weekday(): Monday is 0
weekday(dt) == (toordinal(dt) + 6) % 7

\* the algorithm without its correction m
_easter_date_NO_M(year) ==
    LET a == year % 19
        b == year \div 100
        c == year % 100
        d == b \div 4
        e == b % 4
        f == (b + 8) \div 25
        g == (b - f + 1) \div 3
        h == (19 * a + b - d - g + 15) % 30
        i == c \div 4
        k == c % 4
        l == (32 + 2 * e + 2 * i - h - k) % 7
    IN  date(year, (h + l + 114) \div 31, ((h + l + 114) % 31) + 1)

\* _easter_date: the anonymous Gregorian algorithm
_easter_date(year) ==
    LET a == year % 19
        b == year \div 100
        c == year % 100
        d == b \div 4
        e == b % 4
        f == (b + 8) \div 25
        g == (b - f + 1) \div 3
        h == (19 * a + b - d - g + 15) % 30
        i == c \div 4
        k == c % 4
        l == (32 + 2 * e + 2 * i - h - k) % 7
        m == (a + 11 * h + 22 * l) \div 451
    IN  date(year, (h + l - 7 * m + 114) \div 31, ((h + l - 7 * m + 114) % 31) + 1)

\* the third Thursday of November taken for the fourth
detect_event_THIRD(dt) ==
    LET md == <<dt.month, dt.day>>
        easter == toordinal(_easter_date(dt.year))
        first == date(dt.year, 11, 1)
        offset == (3 - weekday(first)) % 7
    IN  IF md = <<12, 1>> THEN <<"EnzoBirthday">>
        ELSE IF md = <<1, 16>> THEN <<"AxelBirthday">>
        ELSE IF md = <<5, 21>> THEN <<"AmhaoinBirthday">>
        ELSE IF md = <<3, 15>> THEN <<"PatrickBirthday">>
        ELSE IF dt.month = 1 /\ dt.day \in {1, 2} THEN <<"NewYear">>
        ELSE IF dt.month = 2 /\ dt.day = 14 THEN <<"Valentines">>
        ELSE IF dt.month = 3 /\ dt.day = 17 THEN <<"StPatricks">>
        ELSE IF easter - 2 <= toordinal(dt) /\ toordinal(dt) <= easter + 1
             THEN <<"Easter">>
        ELSE IF dt.month = 10 /\ 25 <= dt.day /\ dt.day <= 31 THEN <<"Halloween">>
        ELSE IF /\ dt.month = 11 /\ weekday(dt) = 3
                /\ toordinal(dt) = toordinal(first) + offset + 14
             THEN <<"Thanksgiving">>
        ELSE IF dt.month = 12 /\ dt.day \in {24, 25, 26} THEN <<"Christmas">>
        ELSE IF dt.month = 12 /\ dt.day = 31 THEN <<"NewYearsEve">>
        ELSE NoText

\* detect_event: the label of the date, or None
detect_event(dt) ==
    LET md == <<dt.month, dt.day>>
        easter == toordinal(_easter_date(dt.year))
        first == date(dt.year, 11, 1)
        offset == (3 - weekday(first)) % 7
    IN  IF md = <<12, 1>> THEN <<"EnzoBirthday">>
        ELSE IF md = <<1, 16>> THEN <<"AxelBirthday">>
        ELSE IF md = <<5, 21>> THEN <<"AmhaoinBirthday">>
        ELSE IF md = <<3, 15>> THEN <<"PatrickBirthday">>
        ELSE IF dt.month = 1 /\ dt.day \in {1, 2} THEN <<"NewYear">>
        ELSE IF dt.month = 2 /\ dt.day = 14 THEN <<"Valentines">>
        ELSE IF dt.month = 3 /\ dt.day = 17 THEN <<"StPatricks">>
        ELSE IF easter - 2 <= toordinal(dt) /\ toordinal(dt) <= easter + 1
             THEN <<"Easter">>
        ELSE IF dt.month = 10 /\ 25 <= dt.day /\ dt.day <= 31 THEN <<"Halloween">>
        ELSE IF /\ dt.month = 11 /\ weekday(dt) = 3
                /\ toordinal(dt) = toordinal(first) + offset + 21
             THEN <<"Thanksgiving">>
        ELSE IF dt.month = 12 /\ dt.day \in {24, 25, 26} THEN <<"Christmas">>
        ELSE IF dt.month = 12 /\ dt.day = 31 THEN <<"NewYearsEve">>
        ELSE NoText

(***************************************************************************)
(* grouper.py                                                              *)
(***************************************************************************)
\* INVALID_CHARS = re.compile(r'[<>:\"/|?*]'): the characters of the class
INVALID_CHARS == {"<", ">", ":", "\"", "/", "|", "?", "*"}

\* _default_rules (dicts are functions, the list is a sequence)
_default_rules ==
    [location_aliases |-> <<>>, event_overrides |-> <<>>, custom_events |-> <<>>]

\* _load_rules lines 36-44: the dict of the (key, value) items, keys
\* stripped and lowered, values stripped; a later item replaces an earlier
RECURSIVE DictFrom(_, _)
DictFrom(items, n) ==
    IF n = 0 THEN <<>>
    ELSE (str_lower(strip(items[n][1])) :> strip(items[n][2])) @@ DictFrom(items, n - 1)

\* datetime.strptime(s, "%Y-%m-%d") succeeds
ValidDate(d) ==
    /\ d.month \in 1..12
    /\ d.day \in 1..DaysInMonth(d.year, d.month)

\* _load_rules lines 46-65: the items with a date that parses, in order
RECURSIVE EventsFrom(_, _)
EventsFrom(items, i) ==
    IF i > Len(items) THEN <<>>
    ELSE LET item == items[i]
             end == IF item.end # NoDate THEN item.end ELSE item.start
         IN  IF ValidDate(item.start) /\ ValidDate(end)
             THEN <<[name |-> strip(item.name), start |-> item.start, end |-> end,
                     location |-> str_lower(strip(item.location))]>>
                  \o EventsFrom(items, i + 1)
             ELSE EventsFrom(items, i + 1)

\* grouping_rules.json, next to grouper.py
ConfigPath == [dir |-> <<"photo_sorter">>, name |-> "grouping_rules.json"]

\* _load_rules lines 28-70, its body: read and normalise the file
ReadRules(fs) ==
    IF ConfigPath \notin DOMAIN fs THEN _default_rules
    ELSE LET raw == fs[ConfigPath]
         IN  IF ~raw.json THEN _default_rules
             ELSE [location_aliases |->
                        DictFrom(raw.location_aliases, Len(raw.location_aliases)),
                   event_overrides |->
                        DictFrom(raw.event_overrides, Len(raw.event_overrides)),
                   custom_events |-> EventsFrom(raw.custom_events, 1)]

NotLoaded == <<>>

\* rules read from the file on every call
_load_rules_UNCACHED(loaded, fs) == ReadRules(fs)

\* _load_rules under lru_cache(maxsize=1): the first call reads the file,
\* every later call returns what the first returned
_load_rules(loaded, fs) == IF loaded # NotLoaded THEN loaded ELSE ReadRules(fs)

\* _apply_location_alias
_apply_location_alias(rs, place) ==
    IF str_lower(place) \in DOMAIN rs.location_aliases
    THEN rs.location_aliases[str_lower(place)]
    ELSE place

\* _apply_event_override
_apply_event_override(rs, label) ==
    IF label = NoText THEN label
    ELSE IF str_lower(label) \in DOMAIN rs.event_overrides
            /\ rs.event_overrides[str_lower(label)] # NoText
    THEN rs.event_overrides[str_lower(label)]
    ELSE label

\* _match_custom_event: the name of the first item whose range holds the
\* date and whose location, if it has one, is the lowered place
RECURSIVE MatchFrom(_, _, _, _)
MatchFrom(events, dt, place_key, i) ==
    IF i > Len(events) THEN NoText
    ELSE IF /\ toordinal(events[i].start) <= toordinal(dt)
            /\ toordinal(dt) <= toordinal(events[i].end)
            /\ (events[i].location = NoText \/ events[i].location = place_key)
    THEN events[i].name
    ELSE MatchFrom(events, dt, place_key, i + 1)
_match_custom_event(rs, dt, place) ==
    IF dt = NoDate THEN NoText
    ELSE MatchFrom(rs.custom_events, dt, str_lower(place), 1)

\* _sanitize
_sanitize(name) ==
    IF name = NoText THEN <<"Unknown">>
    ELSE strip(CollapseFrom(
            [i \in 1..Len(name) |-> IF name[i] \in INVALID_CHARS THEN "_" ELSE name[i]], 1))

\* strftime("%b")
MonthAbbr == <<"Jan", "Feb", "Mar", "Apr", "May", "Jun",
               "Jul", "Aug", "Sep", "Oct", "Nov", "Dec">>

\* the place label make_group_name works on (lines 129-135): the label of
\* the metadata, else what reverse_geocode returned (None also when it raised)
ResolvedPlace(meta, geocoded) ==
    IF meta.place = NoText /\ meta.gps THEN geocoded ELSE meta.place

\* make_group_name lines 137-141: the place token, with its spaces
place_token(meta, geocoded, rs) ==
    LET resolved == ResolvedPlace(meta, geocoded)
        place == _sanitize(IF resolved = NoText THEN <<"NoLocation">> ELSE resolved)
    IN  _apply_location_alias(rs, strip(BeforeComma(place)))

\* make_group_name lines 145-152: the event label before the override
event_label(meta, geocoded, rs) ==
    LET dt == meta.datetime
        custom == _match_custom_event(rs, dt, place_token(meta, geocoded, rs))
    IN  IF dt # NoDate /\ custom = NoText THEN detect_event(dt) ELSE custom

\* make_group_name(meta) under the rules rs
make_group_name(meta, geocoded, rs) ==
    LET dt == meta.datetime
        year == IF dt # NoDate THEN ToString(dt.year) ELSE "unknown"
        mon == IF dt # NoDate THEN MonthAbbr[dt.month] ELSE "Mon"
        place_token_compact == RemoveSpaces(place_token(meta, geocoded, rs))
        overridden == _apply_event_override(rs, event_label(meta, geocoded, rs))
    IN  <<year, mon, "_">> \o place_token_compact
        \o (IF overridden # NoText THEN <<"_">> \o overridden ELSE <<>>)

(***************************************************************************)
(* SpecGrouper: make_group_name called one call after another in one       *)
(* process, while the rules file is rewritten                              *)
(***************************************************************************)
\* the contents of grouping_rules.json: text that is no JSON, plain rules,
\* and rules whose replacement texts hold characters of no folder name
BrokenConfig ==
    [json |-> FALSE, location_aliases |-> <<>>, event_overrides |-> <<>>,
     custom_events |-> <<>>]
PlainConfig ==
    [json |-> TRUE,
     location_aliases |-> <<<< <<" ", "New", " ", "York">>, <<"NYC">> >>>>,
     event_overrides |-> <<<< <<"Christmas">>, <<"Xmas">> >>>>,
     custom_events |->
        <<[name |-> <<"Trip">>, start |-> date(2025, 12, 24),
           end |-> date(2025, 12, 26),
           location |-> <<"Paris">>],
          [name |-> <<"Ski">>, start |-> date(2025, 13, 1), end |-> NoDate,
           location |-> NoText]>>]
UnsafeConfig ==
    [json |-> TRUE,
     location_aliases |-> <<<< <<"paris">>, <<"Paris", "/", "France">> >>>>,
     event_overrides |-> <<<< <<"easter">>, <<"Easter", "?">> >>>>,
     custom_events |->
        <<[name |-> <<"Ski", ":", " ", "Trip">>, start |-> date(2025, 1, 11),
           end |-> NoDate, location |-> NoText]>>]
\* rules with a custom event whose name is blank, before two events that
\* both hold 4 July 2025, and an alias whose replacement is blank
BlankConfig ==
    [json |-> TRUE,
     location_aliases |-> <<<< <<"A", "\\", "B">>, <<" ">> >>>>,
     event_overrides |-> <<>>,
     custom_events |->
        <<[name |-> <<" ">>, start |-> date(2025, 4, 20), end |-> NoDate,
           location |-> NoText],
          [name |-> <<"Camp">>, start |-> date(2025, 7, 4), end |-> NoDate,
           location |-> <<" ", "New", " ", "York">>],
          [name |-> <<"Fest">>, start |-> date(2025, 7, 1),
           end |-> date(2025, 7, 31), location |-> NoText],
          [name |-> <<"Late">>, start |-> date(2025, 7, 4), end |-> NoDate,
           location |-> NoText]>>]
\* the file system as far as the grouper reads it: no file, or one of these
ConfigFiles ==
    {<<>>, ConfigPath :> BrokenConfig, ConfigPath :> PlainConfig,
     ConfigPath :> UnsafeConfig, ConfigPath :> BlankConfig}

\* the metadata of a file: capture date (or none), whether it holds a GPS
\* pair, place label (or none)
Meta(dt, gps, place) == [datetime |-> dt, gps |-> gps, place |-> place]

\* the files of the model: no date, Christmas Day, Easter Sunday, a day of
\* the ski trip and 4 July 2025, with the place labels "A\B",
\* "Paris, France", "New  York", "a/b: c", " , France" or none
Metas ==
    {Meta(NoDate, FALSE, <<"A", "\\", "B">>),
     Meta(NoDate, TRUE, NoText),
     Meta(date(2025, 12, 25), FALSE, <<"Paris", ",", " ", "France">>),
     Meta(date(2025, 12, 25), TRUE, <<"New", " ", " ", "York">>),
     Meta(date(2025, 12, 25), FALSE, NoText),
     Meta(date(2025, 4, 20), FALSE, NoText),
     Meta(date(2025, 4, 20), TRUE, NoText),
     Meta(date(2025, 4, 20), FALSE, <<"Paris", ",", " ", "France">>),
     Meta(date(2025, 1, 11), FALSE, <<"a", "/", "b", ":", " ", "c">>),
     Meta(date(2025, 7, 4), FALSE, <<"New", " ", " ", "York">>),
     Meta(date(2025, 7, 4), FALSE, <<"Paris", ",", " ", "France">>),
     Meta(date(2025, 7, 4), FALSE, <<" ", ",", " ", "France">>),
     Meta(date(2025, 7, 4), FALSE, <<"A", "\\", "B">>)}

\* what reverse_geocode answers when asked (None also when it raised)
Geocoded == {NoText, <<"Paris", ",", " ", "France">>}

InitGrouper ==
    /\ dirs = {}
    /\ files \in ConfigFiles
    /\ hist = [n |-> 0, calls |-> <<>>]
    /\ polled = <<>>
    /\ rules = NotLoaded
    /\ media = <<>>
    /\ now = 0
    /\ cache = <<>>
    /\ copy_jobs = <<>>
    /\ preview_jobs = <<>>
    /\ heap = <<>>
    /\ task = <<>>
    /\ trace = <<>>

\* key = make_group_name(meta); the history keeps the first call and the last
GroupCall(meta, geocoded) ==
    /\ hist.n < MaxCalls
    /\ (meta.place = NoText /\ meta.gps) \/ geocoded = NoText
    /\ LET rs == _load_rules(rules, files)
           call == [datetime |-> meta.datetime,
                    place |-> ResolvedPlace(meta, geocoded),
                    rules |-> rs,
                    place_token |-> place_token(meta, geocoded, rs),
                    event_label |-> event_label(meta, geocoded, rs),
                    key |-> make_group_name(meta, geocoded, rs)]
       IN /\ rules' = rs
          /\ hist' = [n |-> hist.n + 1,
                      calls |-> IF hist.calls = <<>> THEN <<call>>
                                ELSE <<hist.calls[1], call>>]
    /\ UNCHANGED <<dirs, files, polled, media, now, cache, copy_jobs, preview_jobs,
                   heap, task, trace>>

\* between two calls the rules file is rewritten, removed or created
ConfigChanges(fs) ==
    /\ hist.n < MaxCalls
    /\ fs # files
    /\ files' = fs
    /\ UNCHANGED <<dirs, hist, polled, rules, media, now, cache, copy_jobs,
                   preview_jobs, heap, task, trace>>

NextGrouper ==
    \/ \E meta \in Metas, geocoded \in Geocoded : GroupCall(meta, geocoded)
    \/ \E fs \in ConfigFiles : ConfigChanges(fs)

SpecGrouper == InitGrouper /\ [][NextGrouper]_vars

(***************************************************************************)
(* Claims about make_group_name (checked under SpecGrouper)                *)
(***************************************************************************)
HasKey == hist.calls # <<>>
HasTwoKeys == Len(hist.calls) = 2
LastKey == hist.calls[Len(hist.calls)]
FirstKey == hist.calls[1]

\* the characters no folder name may hold
IllegalChars == {"<", ">", ":", "\"", "/", "\\", "|", "?", "*"}

\* C19: the key make_group_name returns holds none of the characters
\* < > : " / \ | ? *, whether the text comes from the place label, a
\* location alias, a custom event name or an event override.
C19_KeyIsFolderSafe ==
    HasKey => \A i \in 1..Len(LastKey.key) : LastKey.key[i] \notin IllegalChars

\* C20: two calls of make_group_name in one process run under the same
\* rule set, whatever happened to the rules file and whatever calls were
\* made in between, and when their timestamp and place are the same they
\* return the same key.
C20_SameInputsSameKey ==
    HasTwoKeys =>
        /\ FirstKey.rules = LastKey.rules
        /\ (FirstKey.datetime = LastKey.datetime /\ FirstKey.place = LastKey.place)
              => FirstKey.key = LastKey.key

\* the first call and the third agree on "2025Dec_Paris_Trip", with the
\* rules file rewritten after the first call
C20_Witness ==
    /\ hist.n = MaxCalls
    /\ HasTwoKeys
    /\ FirstKey.datetime = LastKey.datetime
    /\ FirstKey.place = LastKey.place
    /\ FirstKey.key = <<"2025", "Dec", "_", "Paris", "_", "Trip">>
    /\ LastKey.key = FirstKey.key
    /\ ReadRules(files) # LastKey.rules

\* the custom events of the rule set whose inclusive range holds the date
\* and whose place filter is absent or is the place token, case ignored
Matching(call) ==
    {i \in 1..Len(call.rules.custom_events) :
        LET item == call.rules.custom_events[i]
            d == call.datetime
            AtOrAfter(x, y) == \/ x.year > y.year
                               \/ x.year = y.year /\ x.month > y.month
                               \/ x.year = y.year /\ x.month = y.month /\ x.day >= y.day
        IN  /\ AtOrAfter(d, item.start)
            /\ AtOrAfter(item.end, d)
            /\ (item.location = NoText
                  \/ item.location = str_lower(call.place_token))}
FirstMatching(call) == CHOOSE i \in Matching(call) : \A k \in Matching(call) : i <= k

\* C21: the event label of a dated file is the name of the first custom
\* event, in configured order, whose range holds the capture date and whose
\* place filter is absent or matches the place token; the built-in
\* detect_event decides only when no custom event matches.
C21_FirstCustomEventWins ==
    (HasKey /\ LastKey.datetime # NoDate) =>
        IF Matching(LastKey) # {}
        THEN LastKey.event_label = LastKey.rules.custom_events[FirstMatching(LastKey)].name
        ELSE LastKey.event_label = detect_event(LastKey.datetime)

\* C28: the place token of the key is never empty, so no key has the form
\* '<Year><Mon>_' with nothing after the underscore.
C28_PlaceTokenNeverEmpty ==
    HasKey =>
        /\ RemoveSpaces(LastKey.place_token) # NoText
        /\ Len(LastKey.key) > 3

(***************************************************************************)
(* SpecEvents: detect_event applied to every date of a year, in order      *)
(***************************************************************************)
\* the years of the model: FirstYear .. FirstYear + MaxYears - 1
FirstYear == 1980
MaxYears == 100
Years == FirstYear..(FirstYear + MaxYears - 1)

\* dt + timedelta(days=1) within the year of dt
NextDay(dt) ==
    IF dt.day < DaysInMonth(dt.year, dt.month) THEN date(dt.year, dt.month, dt.day + 1)
    ELSE date(dt.year, dt.month + 1, 1)

InitEvents ==
    /\ dirs = {}
    /\ files = <<>>
    /\ \E y \in Years : hist = [n |-> 0, year |-> y, calls |-> <<>>]
    /\ polled = <<>>
    /\ rules = NotLoaded
    /\ media = <<>>
    /\ now = 0
    /\ cache = <<>>
    /\ copy_jobs = <<>>
    /\ preview_jobs = <<>>
    /\ heap = <<>>
    /\ task = <<>>
    /\ trace = <<>>

\* label = detect_event(dt) for the next date of the year; hist.calls is
\* the last call, trace the calls of the year that returned a label
DetectCall ==
    /\ IF hist.calls = <<>> THEN TRUE ELSE hist.calls[1].dt # date(hist.year, 12, 31)
    /\ LET dt == IF hist.calls = <<>> THEN date(hist.year, 1, 1)
                 ELSE NextDay(hist.calls[1].dt)
           call == [dt |-> dt, label |-> detect_event(dt)]
       IN /\ hist' = [n |-> hist.n + 1, year |-> hist.year, calls |-> <<call>>]
          /\ trace' = IF call.label # NoText THEN Append(trace, call) ELSE trace
    /\ UNCHANGED <<dirs, files, polled, rules, media, now, cache, copy_jobs,
                   preview_jobs, heap, task>>

NextEvents == DetectCall

SpecEvents == InitEvents /\ [][NextEvents]_vars

(***************************************************************************)
(* Claims about detect_event (checked under SpecEvents)                    *)
(***************************************************************************)
HasDetect == hist.calls # <<>>
LastDetect == hist.calls[1]
YearDone == HasDetect /\ LastDetect.dt = date(hist.year, 12, 31)
Labelled(label) == SelectSeq(trace, LAMBDA c : c.label = label)

\* the day of the year of a date (1 January is 1)
DayOfYear(dt) == DaysBeforeMonth(dt.year, dt.month) + dt.day

\* Easter Sunday by the computus in the form of Gauss, for the years 1900
\* to 2099 (M = 24, N = 5), as the day of the year
GaussEaster(y) ==
    LET a == y % 19
        b == y % 4
        c == y % 7
        d == (19 * a + 24) % 30
        e == (2 * b + 4 * c + 6 * d + 5) % 7
        days == IF d = 29 /\ e = 6 THEN 28
                ELSE IF d = 28 /\ e = 6 /\ a > 10 THEN 27
                ELSE d + e
    IN  DayOfYear(date(y, 3, 22)) + days

\* the day of the week by the table of Sakamoto: Sunday is 0
DayOfWeek(dt) ==
    LET t == <<0, 3, 2, 5, 0, 3, 5, 1, 4, 6, 2, 4>>
        y == IF dt.month < 3 THEN dt.year - 1 ELSE dt.year
    IN  (y + y \div 4 - y \div 100 + y \div 400 + t[dt.month] + dt.day) % 7

\* C22: in every year of the range detect_event returns "Easter" for
\* exactly the four dates Good Friday to Easter Monday (Easter Sunday - 2
\* to Easter Sunday + 1, Easter Sunday by the Gregorian computus) and for
\* no other date of the year; in 2025 these are 18 to 21 April, and 17 and
\* 22 April are not Easter.
C22_EasterWindow ==
    /\ HasDetect =>
          LET dt == LastDetect.dt
              InWindow == /\ GaussEaster(dt.year) - 2 <= DayOfYear(dt)
                          /\ DayOfYear(dt) <= GaussEaster(dt.year) + 1
          IN  /\ (LastDetect.label = <<"Easter">>) <=> InWindow
              /\ (dt.year = 2025 /\ dt.month = 4 /\ dt.day \in 18..21)
                    => LastDetect.label = <<"Easter">>
              /\ (dt.year = 2025 /\ dt.month = 4 /\ dt.day \in {17, 22})
                    => LastDetect.label # <<"Easter">>
    /\ YearDone => Len(Labelled(<<"Easter">>)) = 4

\* 22 April 2025 is reached, unlabelled, after the four Easter dates
C22_Witness ==
    /\ HasDetect
    /\ LastDetect.dt = date(2025, 4, 22)
    /\ LastDetect.label = NoText
    /\ Labelled(<<"Easter">>) =
          <<[dt |-> date(2025, 4, 18), label |-> <<"Easter">>],
            [dt |-> date(2025, 4, 19), label |-> <<"Easter">>],
            [dt |-> date(2025, 4, 20), label |-> <<"Easter">>],
            [dt |-> date(2025, 4, 21), label |-> <<"Easter">>]>>

\* C23: in every year of the range detect_event returns "Thanksgiving" for
\* exactly one date, the fourth Thursday of November (a Thursday with day
\* of month in 22..28), never for another Thursday; in 2024 it is
\* 28 November and not 21 November.
C23_FourthThursday ==
    /\ HasDetect =>
          LET dt == LastDetect.dt
          IN  /\ (LastDetect.label = <<"Thanksgiving">>)
                    <=> (dt.month = 11 /\ DayOfWeek(dt) = 4 /\ dt.day \in 22..28)
              /\ dt = date(2024, 11, 28) => LastDetect.label = <<"Thanksgiving">>
              /\ dt = date(2024, 11, 21) => LastDetect.label # <<"Thanksgiving">>
    /\ YearDone => Len(Labelled(<<"Thanksgiving">>)) = 1

\* the year 2024 is done with 28 November as its only Thanksgiving
C23_Witness ==
    /\ YearDone
    /\ hist.year = 2024
    /\ Labelled(<<"Thanksgiving">>) =
          <<[dt |-> date(2024, 11, 28), label |-> <<"Thanksgiving">>]>>

(***************************************************************************)
(* SpecCopiers: copy_file called by two threads at once (the threads of    *)
(* two copy jobs with one destination), step by step                       *)
(***************************************************************************)
CopierThreads == {"t1", "t2"}

\* the locals of a copy_file call; between calls pc is "idle" and status
\* holds what the last call returned
IdleCopier ==
    [pc |-> "idle", src |-> NoPath, dest_dir |-> NoPath, dest |-> NoPath, i |-> 0,
     status |-> None]

InitCopiers ==
    /\ \E pre \in SUBSET {FilePath(<<"out", "G1">>, BaseName)} :
         \E fl \in [pre -> Contents] :
           /\ files = fl
           /\ dirs = IF pre = {} THEN {} ELSE MkdirParents({}, <<"out", "G1">>)
    /\ hist = [n |-> 0, calls |-> <<>>]
    /\ polled = <<>>
    /\ rules = <<>>
    /\ media = <<>>
    /\ now = 0
    /\ cache = <<>>
    /\ copy_jobs = <<>>
    /\ preview_jobs = <<>>
    /\ heap = <<>>
    /\ task = [t \in CopierThreads |-> IdleCopier]
    /\ trace = <<>>

\* copy_runner.py line 68: the thread calls copy_file(path, dest_root / group,
\* dry_run=False, return_status=True)
CopierCall(t, src, dest_dir) ==
    /\ task[t].pc = "idle"
    /\ hist.n < MaxCalls
    /\ hist' = [hist EXCEPT !.n = @ + 1]
    /\ task' = [task EXCEPT ![t] = [pc |-> "check", src |-> src, dest_dir |-> dest_dir,
                                     dest |-> NoPath, i |-> 0, status |-> None]]
    /\ UNCHANGED <<dirs, files, polled, rules, media, now, cache, copy_jobs,
                   preview_jobs, heap, trace>>

\* copier.py lines 26-45: mkdir, dest = dest_dir / src.name, and when it
\* exists the comparison by size and hash
CopierCheck(t) ==
    /\ task[t].pc = "check"
    /\ dirs' = MkdirParents(dirs, task[t].dest_dir)
    /\ LET dest == FilePath(task[t].dest_dir, task[t].src.name)
           identical == /\ dest \in DOMAIN files
                        /\ files[dest].size = task[t].src.content.size
                        /\ _hash_file(task[t].src.content) = _hash_file(files[dest])
       IN task' = [task EXCEPT ![t] =
                    IF identical
                    THEN [IdleCopier EXCEPT !.status = "skipped_identical"]
                    ELSE [task[t] EXCEPT !.dest = dest, !.i = 1,
                                         !.pc = IF dest \in DOMAIN files THEN "rename"
                                                ELSE "write"]]
    /\ UNCHANGED <<files, hist, polled, rules, media, now, cache, copy_jobs,
                   preview_jobs, heap, trace>>

\* copier.py lines 46-48: one turn of while dest.exists()
CopierRename(t) ==
    /\ task[t].pc = "rename"
    /\ LET c == task[t]
       IN task' = [task EXCEPT ![t] =
                    IF c.dest \in DOMAIN files
                    THEN [c EXCEPT !.dest = FilePath(c.dest_dir, Renamed(c.src.name, c.i)),
                                   !.i = c.i + 1]
                    ELSE [c EXCEPT !.pc = "write"]]
    /\ UNCHANGED <<dirs, files, hist, polled, rules, media, now, cache, copy_jobs,
                   preview_jobs, heap, trace>>

\* copier.py lines 56-62: shutil.copy2(src, dest) writes dest, whether or
\* not it exists by now; trace is the list of the writes
CopierWrite(t) ==
    /\ task[t].pc = "write"
    /\ files' = (task[t].dest :> task[t].src.content) @@ files
    /\ trace' = Append(trace, [thread |-> t, dest |-> task[t].dest,
                                src |-> task[t].src,
                                existed |-> task[t].dest \in DOMAIN files])
    /\ task' = [task EXCEPT ![t] =
                  [IdleCopier EXCEPT !.status =
                        IF task[t].dest.name # task[t].src.name THEN "renamed"
                        ELSE "copied"]]
    /\ UNCHANGED <<dirs, hist, polled, rules, media, now, cache, copy_jobs,
                   preview_jobs, heap>>

NextCopiers ==
    \/ \E t \in CopierThreads, src \in CopierSources, d \in DestDirs : CopierCall(t, src, d)
    \/ \E t \in CopierThreads : CopierCheck(t)
    \/ \E t \in CopierThreads : CopierRename(t)
    \/ \E t \in CopierThreads : CopierWrite(t)

SpecCopiers == InitCopiers /\ [][NextCopiers]_vars

(***************************************************************************)
(* Claims about concurrent copy_file calls (checked under SpecCopiers)     *)
(***************************************************************************)
\* C30: copy_file never overwrites a file of the destination folder, under
\* every interleaving of the calls of concurrently running copy jobs: each
\* write goes to a path that does not exist when the write happens, so no
\* two writes, and no two different source files, go to the same path.
C30_NeverOverwrites ==
    /\ \A w \in 1..Len(trace) : ~trace[w].existed
    /\ \A v, w \in 1..Len(trace) : trace[v].dest = trace[w].dest => v = w

(***************************************************************************)
(* SpecCache: MappingCache.get and MappingCache.set called by two threads  *)
(* at once (the threads of two jobs building the mapping of one source),   *)
(* MappingCache.get step by step                                           *)
(***************************************************************************)
CacheThreads == {"t1", "t2"}

\* the normalized source paths the builds are called with
CacheSources == {PhotosRoot, AlbumRoot}

\* the locals of a MappingCache.get call; between calls pc is "idle"
IdleCache == [pc |-> "idle", entry |-> NoEntry]

\* the store is empty, or holds the mapping of the source built at time 0
InitCache ==
    /\ dirs = {}
    /\ files = <<>>
    /\ hist = [n |-> 0, calls |-> <<>>]
    /\ polled = <<>>
    /\ rules = <<>>
    /\ media = <<>>
    /\ now = 0
    /\ cache \in {<<>>, PhotosRoot :> MappingResult(PhotosRoot, 0, <<>>, <<>>)}
    /\ heap = <<>>
    /\ copy_jobs = <<>>
    /\ preview_jobs = <<>>
    /\ task = [t \in CacheThreads |-> IdleCache]
    /\ trace = <<>>

\* mapping.py lines 49, 31-33: build_mapping calls cache.get(normalized);
\* entry = self._store.get(source), and the call returns when there is none
CacheGetRead(t, source) ==
    /\ task[t].pc = "idle"
    /\ hist.n < MaxCalls
    /\ hist' = [hist EXCEPT !.n = @ + 1]
    /\ task' = [task EXCEPT ![t] =
                  IF source \in DOMAIN cache
                  THEN [pc |-> "age", entry |-> cache[source]]
                  ELSE IdleCache]
    /\ UNCHANGED <<dirs, files, polled, rules, media, now, cache, copy_jobs,
                   preview_jobs, heap, trace>>

\* mapping.py lines 34, 37: the age of the entry that was read
CacheGetAge(t) ==
    /\ task[t].pc = "age"
    /\ task' = [task EXCEPT ![t] =
                  IF now - task[t].entry.built_at > ttl
                  THEN [task[t] EXCEPT !.pc = "pop"]
                  ELSE IdleCache]
    /\ UNCHANGED <<dirs, files, hist, polled, rules, media, now, cache, copy_jobs,
                   preview_jobs, heap, trace>>

\* mapping.py lines 35-36: self._store.pop(source, None) removes whatever
\* the store holds for the source by now; trace is the list of the removals
CacheGetPop(t) ==
    /\ task[t].pc = "pop"
    /\ LET source == task[t].entry.source
       IN /\ cache' = [k \in DOMAIN cache \ {source} |-> cache[k]]
          /\ trace' = IF source \in DOMAIN cache
                      THEN Append(trace, [thread |-> t, seen |-> task[t].entry,
                                          removed |-> cache[source],
                                          age |-> now - cache[source].built_at])
                      ELSE trace
    /\ task' = [task EXCEPT ![t] = IdleCache]
    /\ UNCHANGED <<dirs, files, hist, polled, rules, media, now, copy_jobs,
                   preview_jobs, heap>>

\* mapping.py lines 82-83, 40: build_mapping stores the result it built now
CacheSetCall(t, source) ==
    /\ task[t].pc = "idle"
    /\ hist.n < MaxCalls
    /\ hist' = [hist EXCEPT !.n = @ + 1]
    /\ cache' = CacheSet(cache, source, MappingResult(source, now, <<>>, <<>>))
    /\ UNCHANGED <<dirs, files, polled, rules, media, now, copy_jobs, preview_jobs,
                   heap, task, trace>>

NextCache ==
    \/ \E t \in CacheThreads, source \in CacheSources : CacheGetRead(t, source)
    \/ \E t \in CacheThreads : CacheGetAge(t)
    \/ \E t \in CacheThreads : CacheGetPop(t)
    \/ \E t \in CacheThreads, source \in CacheSources : CacheSetCall(t, source)
    \/ Tick

SpecCache == InitCache /\ [][NextCache]_vars

(***************************************************************************)
(* Claims about concurrent cache calls (checked under SpecCache)           *)
(***************************************************************************)
\* C31: MappingCache.get removes an entry only if that entry's age exceeds
\* the TTL, under every interleaving of concurrent get and set calls for one
\* source path: every entry a get removed from the store was older than the
\* TTL when it was removed, so an entry that set has just stored is never
\* removed by a get that saw an older, expired entry.
C31_RemovesOnlyExpired ==
    \A w \in 1..Len(trace) : trace[w].age > ttl

(***************************************************************************)
(* SpecErrors: the errors lists of two copy jobs running at once, with     *)
(* _record_error and _copy_duplicates' except branch step by step (get,    *)
(* append, update), and a poller that keeps what get returned              *)
(***************************************************************************)
\* the locals of _run inside its loops: the counters, and the list object
\* that the error recording under way got from the record
IdleRecorder ==
    [pc |-> "loop", processed |-> 0, copied |-> 0, failed |-> 0, duplicates |-> 0,
     errors |-> NoPath]

\* both jobs were started and have published running (copy_runner.py lines
\* 106, 43-51) over a mapping of MaxFiles files
InitErrors ==
    /\ dirs = {}
    /\ files = <<>>
    /\ hist = [n |-> 0, calls |-> <<>>]
    /\ polled = NoPoll
    /\ rules = <<>>
    /\ media = <<>>
    /\ now = 0
    /\ cache = <<>>
    /\ copy_jobs = [j \in JobIds |->
                      [state |-> "running", errors |-> <<j, 0>>, total |-> MaxFiles,
                       processed |-> 0, copied |-> 0, failed |-> 0, duplicates |-> 0]]
    /\ preview_jobs = <<>>
    /\ heap = [r \in {<<j, 0>> : j \in JobIds} |-> <<>>]
    /\ task = [j \in JobIds |-> IdleRecorder]
    /\ trace = [j \in JobIds |-> [dup_failed |-> 0]]

\* _run lines 65-70, 75-77, 86-88: the next file is counted and published,
\* and copy_file copies it ("copied"), raises ("failed"), or finds it
\* identical, after which _copy_duplicates copies it ("held") or its copy2
\* raises ("dup_failed")
ErrFile(j, outcome) ==
    /\ task[j].pc = "loop"
    /\ task[j].processed < MaxFiles
    /\ LET c == [task[j] EXCEPT !.processed = @ + 1]
       IN IF outcome = "copied"
          THEN /\ task' = [task EXCEPT ![j] = [c EXCEPT !.copied = @ + 1]]
               /\ copy_jobs' = JobUpdate(copy_jobs, j,
                     [processed |-> c.processed, copied |-> c.copied + 1])
          ELSE IF outcome = "failed"
          THEN /\ task' = [task EXCEPT ![j] = [c EXCEPT !.failed = @ + 1, !.pc = "get"]]
               /\ copy_jobs' = JobUpdate(copy_jobs, j, [processed |-> c.processed])
          ELSE /\ task' = [task EXCEPT ![j] =
                             [c EXCEPT !.duplicates = @ + 1,
                                       !.pc = IF outcome = "held" THEN "loop"
                                              ELSE "dup_get"]]
               /\ copy_jobs' = JobUpdate(copy_jobs, j,
                     [processed |-> c.processed, duplicates |-> c.duplicates + 1])
    /\ trace' = [trace EXCEPT ![j].dup_failed =
                    IF outcome = "dup_failed" THEN @ + 1 ELSE @]
    /\ UNCHANGED <<dirs, files, hist, polled, rules, media, now, cache, preview_jobs, heap>>

\* _record_error lines 98-99: job = copy_jobs.get(job_id) or {};
\* errors = job.get("errors", []): the list object of the stored record
ErrGet(j) ==
    /\ task[j].pc = "get"
    /\ LET job == JobGet(copy_jobs, j)
           held == job # NoRecord /\ "errors" \in DOMAIN job
           errors == IF held THEN job.errors ELSE NewList(heap, j)
       IN /\ task' = [task EXCEPT ![j].errors = errors, ![j].pc = "append"]
          /\ heap' = IF held THEN heap ELSE (errors :> <<>>) @@ heap
    /\ UNCHANGED <<dirs, files, hist, polled, rules, media, now, cache, copy_jobs,
                   preview_jobs, trace>>

\* _record_error line 100: errors.append(message)
ErrAppend(j) ==
    /\ task[j].pc = "append"
    /\ heap' = [heap EXCEPT ![task[j].errors] =
                   Append(@, <<"Copy failed for", j, task[j].processed>>)]
    /\ task' = [task EXCEPT ![j].pc = "update"]
    /\ UNCHANGED <<dirs, files, hist, polled, rules, media, now, cache, copy_jobs,
                   preview_jobs, trace>>

\* _record_error line 101: copy_jobs.update(job_id, errors=errors)
ErrUpdate(j) ==
    /\ task[j].pc = "update"
    /\ copy_jobs' = JobUpdate(copy_jobs, j, [errors |-> task[j].errors])
    /\ task' = [task EXCEPT ![j].errors = NoPath, ![j].pc = "fail_count"]
    /\ UNCHANGED <<dirs, files, hist, polled, rules, media, now, cache, preview_jobs,
                   heap, trace>>

\* _run lines 72-73: publish failed, continue with the next file
ErrFailed(j) ==
    /\ task[j].pc = "fail_count"
    /\ copy_jobs' = JobUpdate(copy_jobs, j, [failed |-> task[j].failed])
    /\ task' = [task EXCEPT ![j].pc = "loop"]
    /\ UNCHANGED <<dirs, files, hist, polled, rules, media, now, cache, preview_jobs,
                   heap, trace>>

\* _copy_duplicates line 32, the argument of update:
\* (copy_jobs.get(job_id) or {}).get("errors", [])
ErrDupGet(j) ==
    /\ task[j].pc = "dup_get"
    /\ LET job == JobGet(copy_jobs, j)
           held == job # NoRecord /\ "errors" \in DOMAIN job
           errors == IF held THEN job.errors ELSE NewList(heap, j)
       IN /\ task' = [task EXCEPT ![j].errors = errors, ![j].pc = "dup_update"]
          /\ heap' = IF held THEN heap ELSE (errors :> <<>>) @@ heap
    /\ UNCHANGED <<dirs, files, hist, polled, rules, media, now, cache, copy_jobs,
                   preview_jobs, trace>>

\* a handler that stores a list of the new message alone
ErrDupUpdate_ALONE(j) ==
    /\ task[j].pc = "dup_update"
    /\ LET new == NewList(heap, j)
       IN /\ heap' = (new :> <<<<"Duplicate copy failed", j, task[j].processed>>>>) @@ heap
          /\ copy_jobs' = JobUpdate(copy_jobs, j, [errors |-> new])
    /\ task' = [task EXCEPT ![j].errors = NoPath, ![j].pc = "loop"]
    /\ UNCHANGED <<dirs, files, hist, polled, rules, media, now, cache, preview_jobs,
                   trace>>

\* _copy_duplicates line 32: a new list [*errors, message] is stored
ErrDupUpdate(j) ==
    /\ task[j].pc = "dup_update"
    /\ LET new == NewList(heap, j)
       IN /\ heap' = (new :> Append(heap[task[j].errors],
                         <<"Duplicate copy failed", j, task[j].processed>>)) @@ heap
          /\ copy_jobs' = JobUpdate(copy_jobs, j, [errors |-> new])
    /\ task' = [task EXCEPT ![j].errors = NoPath, ![j].pc = "loop"]
    /\ UNCHANGED <<dirs, files, hist, polled, rules, media, now, cache, preview_jobs,
                   trace>>

\* _run lines 90-94: every file was attempted, publish done
ErrFinish(j) ==
    /\ task[j].pc = "loop"
    /\ task[j].processed = MaxFiles
    /\ copy_jobs' = JobUpdate(copy_jobs, j,
            [state |-> "done", current_file |-> NoPath, current_group |-> None])
    /\ task' = [task EXCEPT ![j].pc = "ended"]
    /\ UNCHANGED <<dirs, files, hist, polled, rules, media, now, cache, preview_jobs,
                   heap, trace>>

\* dashboard.py line 124: job = copy_jobs.get(job_id); the poller keeps the
\* record (seen: its errors as they read when it was taken)
ErrPoll(job_id) ==
    /\ LET r == JobGet(copy_jobs, job_id)
       IN polled' = [job_id |-> job_id, r |-> r, seen |-> heap[r.errors]]
    /\ UNCHANGED <<dirs, files, hist, rules, media, now, cache, copy_jobs, preview_jobs,
                   heap, task, trace>>

ErrOutcomes == {"copied", "failed", "held", "dup_failed"}

NextErrors ==
    \/ \E j \in JobIds, outcome \in ErrOutcomes : ErrFile(j, outcome)
    \/ \E j \in JobIds : ErrGet(j)
    \/ \E j \in JobIds : ErrAppend(j)
    \/ \E j \in JobIds : ErrUpdate(j)
    \/ \E j \in JobIds : ErrFailed(j)
    \/ \E j \in JobIds : ErrDupGet(j)
    \/ \E j \in JobIds : ErrDupUpdate(j)
    \/ \E j \in JobIds : ErrFinish(j)
    \/ \E j \in JobIds : ErrPoll(j)

SpecErrors == InitErrors /\ [][NextErrors]_vars

(***************************************************************************)
(* Claims about the errors lists (checked under SpecErrors)                *)
(***************************************************************************)
\* the errors list a poll of job j reads now
ErrorsOf(j) == heap[copy_jobs[j].errors]

\* C34: the errors list of a copy job only grows and loses no message, in
\* any interleaving of the runner's get, append and update with polls and
\* with the other job: every list a poll returns extends, in the same
\* order, the list an earlier poll returned and what the record it keeps
\* held when it was taken, no list object ever loses a message, and at
\* done the length of the list is failed plus the number of failed copies
\* into the duplicates area.
C34_ErrorsOnlyGrow ==
    /\ [](/\ polled # NoPoll =>
                /\ IsPrefix(polled.seen, heap[polled.r.errors])
                /\ IsPrefix(heap[polled.r.errors], ErrorsOf(polled.job_id))
          /\ \A j \in JobIds :
                copy_jobs[j].state = "done" =>
                    Len(ErrorsOf(j)) = copy_jobs[j].failed + trace[j].dup_failed)
    /\ [][/\ \A j \in JobIds : IsPrefix(ErrorsOf(j), ErrorsOf(j)')
          /\ \A r \in DOMAIN heap : IsPrefix(heap[r], heap'[r])]_vars

\* a done job whose list holds a failed copy and a failed duplicate copy, in
\* the order they happened, while the poller keeps a record of it taken
\* between the two, and the other job has recorded a failure of its own
C34_Witness ==
    \E j, o \in JobIds :
        /\ j # o
        /\ copy_jobs[j].state = "done"
        /\ ErrorsOf(j) = <<<<"Copy failed for", j, 1>>, <<"Duplicate copy failed", j, 2>>>>
        /\ polled # NoPoll /\ polled.job_id = j
        /\ polled.seen = <<<<"Copy failed for", j, 1>>>>
        /\ Len(ErrorsOf(o)) >= 1

====
